---- MODULE Spec2Model ----
(***************************************************************************)
(* A model of the prediction and alert synthesis engine of the dashboard:  *)
(*   - the alert page (pages/Alerts.jsx): loadAlerts, its concurrent       *)
(*     fetches, the settings:changed listener and the read/delete actions; *)
(*   - the prediction page (pages/StockPrediction.jsx): runPrediction.     *)
(* Numbers are exact: a percentage is kept as a fraction num/den, a        *)
(* sentiment score in thousandths, a price as an integer.                  *)
(***************************************************************************)
EXTENDS Integers, Sequences, FiniteSets, TLC

VARIABLES
    notificationSettings, \* localStorage 'notificationSettings' (NoSettings when absent)
    watchlist,            \* what localStorage holds under 'watchlist'
    mounted,              \* the alert page is mounted
    alerts,               \* React state `alerts`
    loading,              \* React state `loading` of the alert page
    error,                \* React state `error` of the alert page
    runs,                 \* the loadAlerts calls: position and locals of each
    providers,            \* the answers each provider can give (the deployment)
    clock,                \* Date.now()
    installs,             \* the runs that called setAlerts, in order
    touched               \* the user has changed the list since it was installed

avars == <<notificationSettings, watchlist, providers, mounted, alerts, loading,
           error, runs, clock, installs, touched>>

VARIABLES
    selectedStock,        \* React state of the prediction page
    timeframe,
    modelType,
    predictionData,       \* NoData, or the record runPrediction stores
    pLoading,             \* React state `loading` of the prediction page
    pError,               \* React state `error` of the prediction page
    call                  \* the runPrediction call: position and locals

pvars == <<selectedStock, timeframe, modelType, predictionData, pLoading, pError, call>>

VARIABLES
    panelMounted,         \* the dashboard renders PredictionPanel
    panelStock,           \* prop selectedStock of the panel
    prediction,           \* React state `prediction` of the panel
    panelLoading,         \* React state `loading` of the panel
    panelError,           \* React state `error` of the panel
    panelCalls            \* the generatePrediction calls: position and stock of each

dvars == <<panelMounted, panelStock, prediction, panelLoading, panelError, panelCalls>>

VARIABLES
    values,               \* the series handed to an indicator
    period,               \* the period handed to it
    indicator             \* the indicator called last and what it returned

ivars == <<values, period, indicator>>

VARIABLES
    securitySettings,     \* localStorage 'securitySettings': twoFactorEnabled and pin
    currentUser,          \* localStorage 'currentUser': the session, or "null"
    isAuthenticated,      \* React state `isAuthenticated` of App
    route,                \* the sign-in route or a protected one
    showPinStep,          \* React state `showPinStep` of SignIn
    signing,              \* the password of the authService.signIn call in flight
    authError,            \* React state `error` of SignIn
    pinDue,               \* the session was stored at a PIN step not passed yet
    settingsError,        \* React state `error` of Settings
    pinEntries            \* the PIN submissions made so far

uvars == <<securitySettings, currentUser, isAuthenticated, route, showPinStep, signing,
           authError, pinDue, settingsError, pinEntries>>

vars == <<avars, pvars, dvars, ivars, uvars>>

(***************************************************************************)
(* Bounds of the model.                                                    *)
(***************************************************************************)
MaxRuns == 2
MaxClock == 1
MaxPanelCalls == 2
MaxLen == 3
MaxPeriod == 3
MaxPinEntries == 3

Runs == 1..MaxRuns

(***************************************************************************)
(* Notification preferences.                                               *)
(***************************************************************************)
Flags == [priceAlerts : BOOLEAN, sentimentAlerts : BOOLEAN,
          predictionAlerts : BOOLEAN, newsAlerts : BOOLEAN]

NoSettings == [stored |-> FALSE,
               flags |-> [priceAlerts |-> TRUE, sentimentAlerts |-> TRUE,
                          predictionAlerts |-> TRUE, newsAlerts |-> FALSE]]

DefaultNs == [priceAlerts |-> TRUE, sentimentAlerts |-> TRUE,
              predictionAlerts |-> TRUE, newsAlerts |-> FALSE]

\* ns = { ...defaults, ...JSON.parse(raw) } when raw is present
ReadNs(raw) == IF raw.stored THEN raw.flags ELSE DefaultNs

(***************************************************************************)
(* The symbol batch.                                                       *)
(***************************************************************************)
FallbackSymbols == <<"AAPL", "GOOGL", "MSFT">>
PriceBatch == 8
SentimentBatch == 6
PredictionBatch == 3

\* the slices left out
TakeAll(s, n) == s

Take(s, n) == SubSeq(s, 1, IF Len(s) < n THEN Len(s) ELSE n)

\* What localStorage holds under 'watchlist': nothing, text that is not JSON, JSON
\* that is not an array, or an array; an entry of the array is given by its
\* symbol, "" for an entry without one, NullEntry for a null
WatchlistMissing == [kind |-> "missing", entries |-> <<>>]
WatchlistUnparseable == [kind |-> "unparseable", entries |-> <<>>]
WatchlistNotArray == [kind |-> "object", entries |-> <<>>]
StoredWatchlist(entries) == [kind |-> "array", entries |-> entries]
NullEntry == "null entry"

\* String(s.symbol || '').toUpperCase()
UpperCase(symbol) ==
    CASE symbol = "tsla" -> "TSLA"
      [] symbol = "nvda" -> "NVDA"
      [] OTHER -> symbol

\* the symbols read from the stored watchlist; reading the symbol of a null
\* throws, and the catch leaves no symbol
WatchlistSymbols(raw) ==
    IF raw.kind # "array" THEN <<>>
    ELSE IF \E i \in 1..Len(raw.entries) : raw.entries[i] = NullEntry THEN <<>>
    ELSE LET named(e) == e # ""
             kept     == SelectSeq(raw.entries, named)
         IN  [i \in 1..Len(kept) |-> UpperCase(kept[i])]

BatchSymbols(raw) ==
    LET wl      == WatchlistSymbols(raw)
        symbols == IF Len(wl) = 0 THEN FallbackSymbols ELSE wl
    IN  Take(symbols, PriceBatch)

PhaseSymbols(symbols, phase) ==
    CASE phase = "price"      -> symbols
      [] phase = "sentiment"  -> Take(symbols, SentimentBatch)
      [] phase = "prediction" -> Take(symbols, PredictionBatch)

PhaseGate(ns, phase) ==
    CASE phase = "price"      -> ns.priceAlerts
      [] phase = "sentiment"  -> ns.sentimentAlerts \/ ns.newsAlerts
      [] phase = "prediction" -> ns.predictionAlerts

Phases == <<"price", "sentiment", "prediction">>

(***************************************************************************)
(* Severity and the three emission rules.                                  *)
(***************************************************************************)
Abs(x) == IF x < 0 THEN -x ELSE x

Frac(n, d) == [nan |-> FALSE, num |-> n, den |-> d]
NaN == [nan |-> TRUE, num |-> 0, den |-> 1]

\* the thresholds taken as strict
severityFromPctStrict(pct) ==
    IF pct.nan THEN "low"
    ELSE IF Abs(pct.num) > 2 * pct.den THEN "high"
    ELSE IF Abs(pct.num) > pct.den THEN "medium"
    ELSE "low"

\* pctAbs >= 2 -> high, pctAbs >= 1 -> medium, else low; every comparison with NaN is false
severityFromPct(pct) ==
    IF pct.nan THEN "low"
    ELSE IF Abs(pct.num) >= 2 * pct.den THEN "high"
    ELSE IF Abs(pct.num) >= pct.den THEN "medium"
    ELSE "low"

\* the change taken relative to the latest close
PricePctOfLatest(rows) ==
    LET latestClose == IF Len(rows) > 0 THEN rows[Len(rows)] ELSE 0
        prevClose   == IF Len(rows) > 1 THEN rows[Len(rows) - 1] ELSE latestClose
    IN  IF prevClose > 0 /\ latestClose > 0
        THEN Frac((latestClose - prevClose) * 100, latestClose)
        ELSE Frac(0, 1)

\* rows: the closes of hist.data, oldest first
PricePct(rows) ==
    LET latestClose == IF Len(rows) > 0 THEN rows[Len(rows)] ELSE 0
        prevClose   == IF Len(rows) > 1 THEN rows[Len(rows) - 1] ELSE latestClose
    IN  IF prevClose > 0 THEN Frac((latestClose - prevClose) * 100, prevClose)
        ELSE Frac(0, 1)

\* Number(news?.sentimentScore ?? 0.5), in thousandths
ScoreOf(resp) == IF resp.hasScore THEN resp.score ELSE 500

\* a band of 0.40..0.60 instead of 0.38..0.62
SentimentEmitsWide(score) == score >= 600 \/ score <= 400

SentimentEmits(score) == score >= 620 \/ score <= 380

\* pct of the 1-step forecast against the provider's current price
PredictionPct(resp) ==
    LET current == resp.current
    IN  IF ~resp.isArray THEN Frac(0, IF current > 0 THEN current ELSE 1)
        ELSE IF current > 0
             THEN IF Len(resp.predictions) = 0 THEN NaN
                  ELSE Frac((resp.predictions[1] - current) * 100, current)
             ELSE Frac(0, 1)

\* dir = pct >= 0 ? 'Bullish' : 'Bearish'; a comparison with NaN is false
PredictionDir(pct) ==
    IF ~pct.nan /\ pct.num >= 0 THEN "Bullish" ELSE "Bearish"

\* The alerts one resolved fetch pushes on `built` (none or one); dir is the
\* direction the title of a prediction alert names.
Emitted(phase, sym, resp, id, r) ==
    IF ~resp.ok THEN <<>>
    ELSE CASE phase = "price" ->
                LET pct == PricePct(resp.rows)
                IN  <<[id |-> id, type |-> "price", severity |-> severityFromPct(pct),
                       stock |-> sym, read |-> FALSE, val |-> pct, run |-> r]>>
           [] phase = "sentiment" ->
                LET score == ScoreOf(resp)
                IN  IF SentimentEmits(score)
                    THEN <<[id |-> id, type |-> "sentiment",
                            severity |-> IF score <= 380 THEN "high" ELSE "medium",
                            stock |-> sym, read |-> FALSE, val |-> Frac(score, 1000),
                            run |-> r]>>
                    ELSE <<>>
           [] phase = "prediction" ->
                LET pct == PredictionPct(resp)
                IN  <<[id |-> id, type |-> "prediction", severity |-> severityFromPct(pct),
                       stock |-> sym, read |-> FALSE, val |-> pct, run |-> r,
                       dir |-> PredictionDir(pct)]>>

(***************************************************************************)
(* The sort of loadAlerts.                                                 *)
(***************************************************************************)
sevRank(s) ==
    CASE s = "high" -> 0 [] s = "medium" -> 1 [] s = "low" -> 2 [] OTHER -> 9

\* ties broken by ascending id
CompareAlertsOldestFirst(a, b) ==
    IF a.read # b.read THEN (IF a.read THEN 1 ELSE -1)
    ELSE IF sevRank(a.severity) - sevRank(b.severity) # 0
         THEN sevRank(a.severity) - sevRank(b.severity)
         ELSE a.id - b.id

\* the comparator given to built.sort: negative when a goes first
CompareAlerts(a, b) ==
    IF a.read # b.read THEN (IF a.read THEN 1 ELSE -1)
    ELSE IF sevRank(a.severity) - sevRank(b.severity) # 0
         THEN sevRank(a.severity) - sevRank(b.severity)
         ELSE b.id - a.id

\* x inserted in a sorted sequence, after the elements that do not go after it
RECURSIVE InsertSorted(_, _)
InsertSorted(x, s) ==
    IF s = <<>> THEN <<x>>
    ELSE IF CompareAlerts(s[Len(s)], x) > 0
         THEN Append(InsertSorted(x, SubSeq(s, 1, Len(s) - 1)), s[Len(s)])
         ELSE Append(s, x)

\* Array.prototype.sort with CompareAlerts (stable)
RECURSIVE SortAlerts(_)
SortAlerts(s) ==
    IF s = <<>> THEN <<>>
    ELSE InsertSorted(s[Len(s)], SortAlerts(SubSeq(s, 1, Len(s) - 1)))

(***************************************************************************)
(* The providers' answers.                                                 *)
(***************************************************************************)
PriceFailed == [ok |-> FALSE, rows |-> <<>>]
PriceRows(rw) == [ok |-> TRUE, rows |-> rw]

SentimentFailed == [ok |-> FALSE, hasScore |-> FALSE, score |-> 0]
SentimentNoScore == [ok |-> TRUE, hasScore |-> FALSE, score |-> 0]
SentimentScore(sc) == [ok |-> TRUE, hasScore |-> TRUE, score |-> sc]

PredictionFailed == [ok |-> FALSE, current |-> 0, isArray |-> FALSE, predictions |-> <<>>]
Predicted(cur, ps) == [ok |-> TRUE, current |-> cur, isArray |-> TRUE, predictions |-> ps]

\* a deployment in which every provider is configured
FullProviders ==
    [price      |-> {PriceFailed} \cup
                    {PriceRows(rw) : rw \in {<<100, 100>>, <<100, 101>>, <<100, 102>>}},
     sentiment  |-> {SentimentFailed, SentimentNoScore} \cup
                    {SentimentScore(sc) : sc \in {380, 381, 619, 620}},
     prediction |-> {PredictionFailed} \cup
                    {Predicted(100, <<p>>) : p \in {99, 100, 103}}]

\* a deployment without quotes and news, and with one forecast
ForecastOnlyProviders ==
    [price      |-> {PriceFailed},
     sentiment  |-> {SentimentFailed},
     prediction |-> {PredictionFailed, Predicted(100, <<103>>)}]

\* a deployment with one quote, one score and one forecast
SteadyProviders ==
    [price      |-> {PriceRows(<<100, 102>>)},
     sentiment  |-> {SentimentScore(620)},
     prediction |-> {PredictionFailed, Predicted(100, <<103>>)}]

\* a deployment whose quotes and forecasts move by 0, 0.5, 1, 1.5, 2 and 3 percent,
\* up or down, and whose price history can be empty, one row or start at 0
ThresholdProviders ==
    [price      |-> {PriceFailed} \cup
                    {PriceRows(rw) : rw \in {<<>>, <<100>>, <<0, 100>>, <<200, 201>>,
                                             <<100, 101>>, <<200, 203>>, <<100, 102>>,
                                             <<200, 197>>, <<100, 97>>}},
     sentiment  |-> {SentimentScore(620)},
     prediction |-> {PredictionFailed} \cup
                    {Predicted(200, <<p>>) : p \in {201, 203, 197}} \cup
                    {Predicted(100, <<p>>) : p \in {101, 102, 98}}]

Responses(phase) == providers[phase]

(***************************************************************************)
(* A run of loadAlerts.                                                    *)
(***************************************************************************)
IdleRun == [pc |-> "idle", ns |-> DefaultNs, symbols |-> <<>>, nextId |-> 0,
            built |-> <<>>, pending |-> {}, fetched |-> {}, answers |-> <<>>,
            overlapped |-> FALSE, pushed |-> <<>>]

PhaseIndex(phase) == CHOOSE i \in 1..Len(Phases) : Phases[i] = phase

\* the gates read from the stored preferences instead of the run's own ns
RECURSIVE ProceedReadingStored(_, _)
ProceedReadingStored(run, i) ==
    IF i > Len(Phases)
    THEN [run EXCEPT !.pc = "done", !.pending = {}, !.built = SortAlerts(run.built)]
    ELSE IF PhaseGate(ReadNs(notificationSettings), Phases[i])
         THEN LET syms == PhaseSymbols(run.symbols, Phases[i])
              IN  [run EXCEPT !.pc = Phases[i], !.pending = 1..Len(syms),
                              !.fetched = @ \cup {<<Phases[i], syms[k]>> : k \in 1..Len(syms)}]
         ELSE ProceedReadingStored(run, i + 1)

\* The run from the gate of phase number i on: it issues the fetches of the first
\* enabled phase, or sorts `built` and ends when no phase is left.
RECURSIVE Proceed(_, _)
Proceed(run, i) ==
    IF i > Len(Phases)
    THEN [run EXCEPT !.pc = "done", !.pending = {}, !.built = SortAlerts(run.built)]
    ELSE IF PhaseGate(run.ns, Phases[i])
         THEN LET syms == PhaseSymbols(run.symbols, Phases[i])
              IN  [run EXCEPT !.pc = Phases[i], !.pending = 1..Len(syms),
                              !.fetched = @ \cup {<<Phases[i], syms[k]>> : k \in 1..Len(syms)}]
         ELSE Proceed(run, i + 1)

InFlight(r) == runs[r].pc \in {"price", "sentiment", "prediction"}

\* the list of the run appended to the list shown
InstalledMerged(run) == alerts \o run.built

\* setAlerts(built) of a run that ended
Installed(run) == run.built

\* What a step of run r leaves on the page: a run that ended has installed its
\* list and set loading to false (finally).
Settle(r, run, busy) ==
    /\ runs' = [runs EXCEPT ![r] = run]
    /\ IF run.pc = "done"
       THEN /\ alerts' = Installed(run)
            /\ loading' = FALSE
            /\ installs' = Append(installs, r)
            /\ touched' = FALSE
       ELSE /\ loading' = busy
            /\ UNCHANGED <<alerts, installs, touched>>

\* loadAlerts, up to its first await; raw is what localStorage holds under
\* 'notificationSettings' when it is called
StartRun(r, raw) ==
    /\ runs[r].pc = "idle"
    /\ \A q \in Runs : q < r => runs[q].pc # "idle"
    /\ LET run == [IdleRun EXCEPT !.ns = ReadNs(raw),
                                  !.symbols = BatchSymbols(watchlist),
                                  !.nextId = clock',
                                  !.overlapped = \E q \in Runs : InFlight(q)]
       IN  /\ error' = "null"
           /\ Settle(r, Proceed(run, 1), TRUE)

\* the mount effect of the page calls loadAlerts
Mount ==
    /\ ~mounted
    /\ mounted' = TRUE
    /\ clock' = clock
    /\ StartRun(1, notificationSettings)
    /\ UNCHANGED <<notificationSettings, watchlist, providers>>
    /\ UNCHANGED <<pvars, dvars, ivars, uvars>>

\* Settings.saveNotifications stores the flags and then broadcasts
\* settings:changed; the listener of the page calls loadAlerts, which reads them
SaveNotifications(flags) ==
    /\ mounted
    /\ notificationSettings' = [stored |-> TRUE, flags |-> flags]
    /\ \E t \in clock..MaxClock : clock' = t
    /\ \E r \in Runs : StartRun(r, [stored |-> TRUE, flags |-> flags])
    /\ UNCHANGED <<watchlist, providers, mounted>>
    /\ UNCHANGED <<pvars, dvars, ivars, uvars>>

\* the Watchlist page stores a changed watchlist
SaveWatchlist(w) ==
    /\ watchlist' = w
    /\ UNCHANGED <<notificationSettings, providers, mounted, alerts, loading, error,
                   runs, clock, installs, touched>>
    /\ UNCHANGED <<pvars, dvars, ivars, uvars>>

\* a rejected fetch rejects the Promise.all of its phase: the run ends with no alert
ResolveAborting(run, r, k, resp) ==
    LET phase == run.pc
        sym   == PhaseSymbols(run.symbols, phase)[k]
        new   == Emitted(phase, sym, resp, run.nextId, r)
        run1  == [run EXCEPT !.built = @ \o new,
                             !.pushed = @ \o [i \in 1..Len(new) |-> new[i].id],
                             !.nextId = @ + Len(new),
                             !.pending = @ \ {k},
                             !.answers = @ @@ (<<phase, k>> :> resp)]
    IN  IF ~resp.ok THEN [run1 EXCEPT !.pc = "done", !.pending = {}, !.built = <<>>]
        ELSE IF run1.pending = {} THEN Proceed(run1, PhaseIndex(phase) + 1) ELSE run1

\* nextId read but not incremented
ResolveReusingId(run, r, k, resp) ==
    LET phase == run.pc
        sym   == PhaseSymbols(run.symbols, phase)[k]
        new   == Emitted(phase, sym, resp, run.nextId, r)
        run1  == [run EXCEPT !.built = @ \o new,
                             !.pushed = @ \o [i \in 1..Len(new) |-> new[i].id],
                             !.pending = @ \ {k},
                             !.answers = @ @@ (<<phase, k>> :> resp)]
    IN  IF run1.pending = {} THEN Proceed(run1, PhaseIndex(phase) + 1) ELSE run1

\* The continuation of fetch k of the run's phase on the answer resp: the alert is
\* pushed, a rejection is caught and skipped, and after the last fetch of the phase
\* the run goes on to its next await.  r is the number of the run.
Resolve(run, r, k, resp) ==
    LET phase == run.pc
        sym   == PhaseSymbols(run.symbols, phase)[k]
        new   == Emitted(phase, sym, resp, run.nextId, r)
        run1  == [run EXCEPT !.built = @ \o new,
                             !.pushed = @ \o [i \in 1..Len(new) |-> new[i].id],
                             !.nextId = @ + Len(new),
                             !.pending = @ \ {k},
                             !.answers = @ @@ (<<phase, k>> :> resp)]
    IN  IF run1.pending = {} THEN Proceed(run1, PhaseIndex(phase) + 1) ELSE run1

\* the rejection of one fetch left uncaught: it reaches the catch of loadAlerts,
\* which sets the error and empties the list
FetchDoneRaising(r, k) ==
    /\ InFlight(r)
    /\ k \in runs[r].pending
    /\ \E resp \in Responses(runs[r].pc) :
          IF resp.ok
          THEN /\ Settle(r, Resolve(runs[r], r, k, resp), loading)
               /\ UNCHANGED error
          ELSE /\ runs' = [runs EXCEPT ![r] =
                              [@ EXCEPT !.pc = "done", !.pending = {}, !.built = <<>>,
                                        !.answers = @ @@ (<<runs[r].pc, k>> :> resp)]]
               /\ error' = "Failed to load alerts"
               /\ alerts' = <<>>
               /\ loading' = FALSE
               /\ UNCHANGED <<installs, touched>>
    /\ UNCHANGED <<notificationSettings, watchlist, providers, mounted, clock>>
    /\ UNCHANGED <<pvars, dvars, ivars, uvars>>

\* One fetch of run r resolves or rejects.
FetchDone(r, k) ==
    /\ InFlight(r)
    /\ k \in runs[r].pending
    /\ \E resp \in Responses(runs[r].pc) : Settle(r, Resolve(runs[r], r, k, resp), loading)
    /\ UNCHANGED <<notificationSettings, watchlist, providers, mounted, error, clock>>
    /\ UNCHANGED <<pvars, dvars, ivars, uvars>>

(***************************************************************************)
(* The read/delete actions of the page.                                    *)
(***************************************************************************)
MarkRead(list, id) ==
    [i \in 1..Len(list) |-> IF list[i].id = id THEN [list[i] EXCEPT !.read = TRUE]
                            ELSE list[i]]

MarkAllRead(list) == [i \in 1..Len(list) |-> [list[i] EXCEPT !.read = TRUE]]

\* every alert of the stock of the alert removed with it
WithoutStock(list, id) ==
    LET Keep(a) == \A i \in 1..Len(list) : list[i].id = id => a.stock # list[i].stock
    IN  SelectSeq(list, Keep)

Without(list, id) == LET Keep(a) == a.id # id IN SelectSeq(list, Keep)

UserFrame ==
    /\ touched' = TRUE
    /\ UNCHANGED <<notificationSettings, watchlist, providers, mounted, loading, error,
                   runs, clock, installs>>
    /\ UNCHANGED <<pvars, dvars, ivars, uvars>>

\* the button is rendered for an unread alert
markAsRead(i) ==
    /\ i \in 1..Len(alerts)
    /\ ~alerts[i].read
    /\ alerts' = MarkRead(alerts, alerts[i].id)
    /\ UserFrame

\* the button is rendered while unreadCount > 0
markAllAsRead ==
    /\ \E i \in 1..Len(alerts) : ~alerts[i].read
    /\ alerts' = MarkAllRead(alerts)
    /\ UserFrame

deleteAlert(i) ==
    /\ i \in 1..Len(alerts)
    /\ alerts' = Without(alerts, alerts[i].id)
    /\ UserFrame

clearAllAlerts ==
    /\ mounted
    /\ alerts' = <<>>
    /\ UserFrame

(***************************************************************************)
(* The prediction page: runPrediction.                                     *)
(***************************************************************************)
Timeframes == {"1D", "3D", "1W", "2W", "1M"}
ModelTypes == {"LSTM", "GRU", "CNN", "RNN", "TIMESNET", "TRANSFORMER"}

getPredictionLengthForTimeframe(tf) ==
    CASE tf = "1D" -> 1
      [] tf = "3D" -> 3
      [] tf = "1W" -> 7
      [] tf = "2W" -> 14
      [] tf = "1M" -> 30
      [] OTHER     -> 3

Min(a, b) == IF a < b THEN a ELSE b
Max(a, b) == IF a > b THEN a ELSE b

\* TIMESNET clamped like TRANSFORMER instead of fixed
PredictionLengthClampingTimesNet(tf, model) ==
    IF model \in {"TIMESNET", "TRANSFORMER"}
    THEN Min(3, Max(1, getPredictionLengthForTimeframe(tf)))
    ELSE getPredictionLengthForTimeframe(tf)

\* TRANSFORMER left unclamped
PredictionLengthUnclamped(tf, model) ==
    IF model = "TIMESNET" THEN 3 ELSE getPredictionLengthForTimeframe(tf)

\* every family clamped to the 3 steps of the TRANSFORMER checkpoints
PredictionLengthClampingAll(tf, model) ==
    IF model = "TIMESNET" THEN 3
    ELSE Min(3, Max(1, getPredictionLengthForTimeframe(tf)))

\* the prediction_length runPrediction sends
PredictionLength(tf, model) ==
    IF model = "TIMESNET" THEN 3
    ELSE IF model = "TRANSFORMER"
         THEN Min(3, Max(1, getPredictionLengthForTimeframe(tf)))
         ELSE getPredictionLengthForTimeframe(tf)

\* a field of a row: absent (null or undefined) or a number
Absent == [has |-> FALSE, v |-> 0]
Num(n) == [has |-> TRUE, v |-> n]

LatestFailed == [ok |-> FALSE, row |-> FALSE, Close |-> Absent, AdjClose |-> Absent]
LatestNoRow == [ok |-> TRUE, row |-> FALSE, Close |-> Absent, AdjClose |-> Absent]
LatestRow(c, a) == [ok |-> TRUE, row |-> TRUE, Close |-> c, AdjClose |-> a]

\* latestRow ? Number(latestRow.Close ?? latestRow['Adj close'] ?? 0) : 0
LatestCloseOf(resp) ==
    IF ~resp.row THEN 0
    ELSE IF resp.Close.has THEN resp.Close.v
    ELSE IF resp.AdjClose.has THEN resp.AdjClose.v
    ELSE 0

\* the provider's price taken whenever it is positive
CurrentPricePreferringProvider(latestClose, result) ==
    IF result.current_price > 0 THEN result.current_price ELSE latestClose

\* latestClose > 0 ? latestClose : Number(result.current_price || 0)
CurrentPrice(latestClose, result) ==
    IF latestClose > 0 THEN latestClose ELSE result.current_price

InferenceFailed == [ok |-> FALSE, current_price |-> 0, isArray |-> FALSE, predictions |-> <<>>]
Inferred(cur, arr, ps) == [ok |-> TRUE, current_price |-> cur, isArray |-> arr, predictions |-> ps]

\* x.toFixed(2) of a fraction with a positive denominator, in hundredths: the
\* nearest hundredth, a tie going away from zero
ToFixed2(f) ==
    LET magnitude == (2 * Abs(f.num) * 100 + f.den) \div (2 * f.den)
    IN  IF f.num < 0 THEN -magnitude ELSE magnitude

\* A confidence is kept as toFixed(1) prints it: a number of tenths, or NaN.
Tenths(t) == [nan |-> FALSE, tenths |-> t]
NotANumber == [nan |-> TRUE, tenths |-> 0]

RECURSIVE Sum(_)
Sum(s) == IF s = <<>> THEN 0 ELSE Head(s) + Sum(Tail(s))

Squares(s) == [i \in 1..Len(s) |-> s[i] * s[i]]

RECURSIVE Pow10(_)
Pow10(k) == IF k = 0 THEN 1 ELSE 10 * Pow10(k - 1)

\* floor(num * 10^k / den), and whether the quotient is exact; digit by digit
RECURSIVE Scaled(_, _, _)
Scaled(num, den, k) ==
    IF k = 0 THEN [q |-> num \div den, exact |-> num % den = 0]
    ELSE LET rest == Scaled((num % den) * 10, den, k - 1)
         IN  [q |-> (num \div den) * Pow10(k) + rest.q, exact |-> rest.exact]

\* floor(sqrt(x)) between lo and hi, lo * lo <= x < hi * hi
RECURSIVE Root(_, _, _)
Root(x, lo, hi) ==
    IF hi - lo <= 1 THEN lo
    ELSE LET mid == (lo + hi) \div 2
         IN  IF mid * mid <= x THEN Root(x, mid, hi) ELSE Root(x, lo, mid)

ISqrt(x) == Root(x, 0, 46340)

\* n * n * variance: the population variance of the sequence is this over n * n
Spread(preds) == Len(preds) * Sum(Squares(preds)) - Sum(preds) * Sum(preds)

\* (100 - Math.sqrt(variance) / currentPrice * 100).toFixed(1) in tenths, for a
\* non-empty sequence and a positive price: the nearest tenth, a tie going up
RawTenths(preds, currentPrice) ==
    LET n     == Len(preds)
        x     == Scaled(Spread(preds), n * n * currentPrice * currentPrice, 8)
        y10   == ISqrt(x.q)
        whole == x.exact /\ y10 * y10 = x.q
    IN  1000 - (IF whole THEN (y10 + 4) \div 10 ELSE (y10 + 5) \div 10)

\* the floor of 50 left out
ConfidenceWithoutFloor(preds, currentPrice) ==
    IF Len(preds) = 0 THEN NotANumber
    ELSE IF currentPrice = 0
         THEN IF Spread(preds) = 0 THEN NotANumber ELSE Tenths(500)
         ELSE IF currentPrice < 0 THEN Tenths(950)
         ELSE Tenths(Min(950, RawTenths(preds, currentPrice)))

\* Math.max(50, Math.min(95, 100 - (Math.sqrt(variance) / currentPrice * 100))),
\* avg and variance being those of preds: 0 / 0 is NaN, x / 0 is Infinity, and
\* Math.min and Math.max of NaN are NaN
ConfidenceFormula(preds, currentPrice) ==
    IF Len(preds) = 0 THEN NotANumber
    ELSE IF currentPrice = 0
         THEN IF Spread(preds) = 0 THEN NotANumber ELSE Tenths(500)
         ELSE IF currentPrice < 0 THEN Tenths(950)
         ELSE Tenths(Max(500, Min(950, RawTenths(preds, currentPrice))))

\* the confidence of runPrediction: the formula behind its guard, else 50
Confidence(preds, currentPrice) ==
    IF Len(preds) > 0 /\ currentPrice > 0
    THEN ConfidenceFormula(preds, currentPrice)
    ELSE Tenths(500)

\* a forecast equal to the current price counted as a rise
TrendNotBelow(firstPrediction, currentPrice) ==
    IF firstPrediction >= currentPrice THEN "Bullish" ELSE "Bearish"

\* firstPrediction > currentPrice ? 'Bullish' : 'Bearish'
Trend(firstPrediction, currentPrice) ==
    IF firstPrediction > currentPrice THEN "Bullish" ELSE "Bearish"

\* the fields of the record runPrediction stores that come from the two answers;
\* currentPrice, predictedPrice and changePercent are kept in hundredths
Derived(latestClose, result) ==
    LET currentPrice    == CurrentPrice(latestClose, result)
        preds           == IF result.isArray THEN result.predictions ELSE <<>>
        firstPrediction == IF Len(preds) > 0 THEN preds[1] ELSE currentPrice
        lastPrediction  == IF Len(preds) > 0 THEN preds[Len(preds)] ELSE firstPrediction
        trend           == Trend(firstPrediction, currentPrice)
        changePercent   == IF currentPrice > 0
                           THEN Frac((firstPrediction - currentPrice) * 100, currentPrice)
                           ELSE Frac(0, 1)
    IN  [currentPrice   |-> ToFixed2(Frac(currentPrice, 1)),
         predictedPrice |-> ToFixed2(Frac(lastPrediction, 1)),
         confidence     |-> Confidence(preds, currentPrice),
         trend          |-> trend,
         changePercent  |-> ToFixed2(changePercent),
         current_price  |-> result.current_price,
         latest_close   |-> latestClose,
         predictions    |-> preds]

NoData == [present |-> FALSE]
IdleCall == [pc |-> "idle"]

LatestResponses ==
    {LatestFailed, LatestNoRow} \cup
    {LatestRow(c, a) : c \in {Absent, Num(0), Num(150)}, a \in {Absent, Num(149)}}

\* n forecast steps from `base` on, `step` apart
Ramp(base, step, n) == [i \in 1..n |-> base + step * (i - 1)]

\* the provider answers with as many steps as it was asked for, or with no array
InferenceResponses(n) ==
    {InferenceFailed} \cup
    {Inferred(cur, TRUE, Ramp(p, 0, n)) : cur \in {0, 148}, p \in {149, 151}} \cup
    {Inferred(cur, FALSE, <<>>) : cur \in {0, 148}}

\* the same with forecasts that move, that start at the current price, and with
\* an empty array
ForecastResponses(n) ==
    {InferenceFailed} \cup
    {Inferred(cur, TRUE, Ramp(base, step, n)) :
        cur \in {0, 148}, base \in {148, 149, 150}, step \in {0, 40}} \cup
    {Inferred(cur, arr, <<>>) : cur \in {0, 148}, arr \in BOOLEAN}

Horizons == {getPredictionLengthForTimeframe(tf) : tf \in Timeframes}

AnyInferenceResponse == UNION {InferenceResponses(n) : n \in Horizons}

AnyForecastResponse == UNION {ForecastResponses(n) : n \in Horizons}

SetModelType(m) ==
    /\ modelType' = m
    /\ UNCHANGED <<selectedStock, timeframe, predictionData, pLoading, pError, call>>
    /\ UNCHANGED <<avars, dvars, ivars, uvars>>

SetTimeframe(tf) ==
    /\ timeframe' = tf
    /\ UNCHANGED <<selectedStock, modelType, predictionData, pLoading, pError, call>>
    /\ UNCHANGED <<avars, dvars, ivars, uvars>>

\* runPrediction up to its first await; the button is disabled while loading, and
\* the page is not shown while the dashboard is
RunPrediction ==
    /\ ~panelMounted
    /\ ~pLoading
    /\ selectedStock # ""
    /\ pLoading' = TRUE
    /\ pError' = "null"
    /\ predictionData' = NoData
    /\ call' = [pc |-> "latest", stock |-> selectedStock, modelType |-> modelType,
                timeframe |-> timeframe,
                prediction_length |-> PredictionLength(timeframe, modelType)]
    /\ UNCHANGED <<selectedStock, timeframe, modelType>>
    /\ UNCHANGED <<avars, dvars, ivars, uvars>>

\* a failed inference call made once more before the run gives up
FailsRetrying(message) ==
    IF call.pc = "predict" /\ call.predicts < 2
    THEN /\ call' = [call EXCEPT !.predicts = @ + 1]
         /\ UNCHANGED <<predictionData, pLoading, pError>>
    ELSE /\ pError' = message
         /\ pLoading' = FALSE
         /\ call' = [pc |-> "idle"]
         /\ UNCHANGED predictionData

\* catch and finally of runPrediction
Fails(message) ==
    /\ pError' = message
    /\ pLoading' = FALSE
    /\ call' = [pc |-> "idle"]
    /\ UNCHANGED predictionData

\* stockAPI.getLatestStockData answers; predictionAPI.predict is called
\* (predicts counts the calls of it the run has made)
LatestDone(resp) ==
    /\ call.pc = "latest"
    /\ IF ~resp.ok THEN Fails("latest")
       ELSE /\ call' = [pc |-> "predict", stock |-> call.stock,
                        modelType |-> call.modelType, timeframe |-> call.timeframe,
                        prediction_length |-> call.prediction_length,
                        latest |-> resp, predicts |-> 1,
                        request |-> [symbol |-> call.stock, model_type |-> call.modelType,
                                     prediction_length |-> call.prediction_length]]
            /\ UNCHANGED <<predictionData, pLoading, pError>>
    /\ UNCHANGED <<selectedStock, timeframe, modelType>>
    /\ UNCHANGED <<avars, dvars, ivars, uvars>>

\* predictionAPI.predict answers; stockAPI.getStockData is called
PredictDone(resp) ==
    /\ call.pc = "predict"
    /\ Len(resp.predictions) \in {0, call.request.prediction_length}
    /\ IF ~resp.ok THEN Fails("predict")
       ELSE /\ call' = [pc |-> "hist", stock |-> call.stock,
                        modelType |-> call.modelType, timeframe |-> call.timeframe,
                        latest |-> call.latest, request |-> call.request,
                        predicts |-> call.predicts, result |-> resp]
            /\ UNCHANGED <<predictionData, pLoading, pError>>
    /\ UNCHANGED <<selectedStock, timeframe, modelType>>
    /\ UNCHANGED <<avars, dvars, ivars, uvars>>

(***************************************************************************)
(* The technical indicators of the prediction page.  A value is null or an  *)
(* exact fraction in lowest terms.                                          *)
(***************************************************************************)
RECURSIVE Gcd(_, _)
Gcd(a, b) == IF b = 0 THEN a ELSE Gcd(b, a % b)

Null == [null |-> TRUE, num |-> 0, den |-> 1]

\* n / d in lowest terms with a positive denominator; a division by 0 gives
\* Infinity (1 / 0), -Infinity (-1 / 0) or NaN (0 / 0)
Ratio(n, d) ==
    IF d = 0
    THEN [null |-> FALSE, num |-> IF n > 0 THEN 1 ELSE IF n < 0 THEN -1 ELSE 0, den |-> 0]
    ELSE LET g == Gcd(Abs(n), Abs(d))
             m == IF d < 0 THEN -n ELSE n
         IN  [null |-> FALSE, num |-> IF m < 0 THEN -((-m) \div g) ELSE m \div g,
              den |-> Abs(d) \div g]

\* values.slice(-n): the last n values for n > 0; slice(-0) is slice(0), the
\* whole series, and for n < 0 the series without its first -n values
Last(s, n) ==
    IF n > 0 THEN SubSeq(s, Max(1, Len(s) - n + 1), Len(s))
    ELSE SubSeq(s, 1 - n, Len(s))

\* an average of too few values returned as 0
computeSMAOrZero(s, p) ==
    IF Len(s) < p THEN Ratio(0, 1) ELSE Ratio(Sum(Last(s, p)), p)

computeSMA(s, p) ==
    IF Len(s) < p THEN Null ELSE Ratio(Sum(Last(s, p)), p)

\* the ema of computeEMA after the value at index i (1-based): the average of
\* the first p values at i = p, then ema = v * k + ema * (1 - k), k = 2 / (p + 1)
RECURSIVE Smooth(_, _, _)
Smooth(s, p, i) ==
    IF i <= p THEN Ratio(Sum(SubSeq(s, 1, p)), p)
    ELSE LET ema == Smooth(s, p, i - 1)
         IN  Ratio(2 * s[i] * ema.den + (p - 1) * ema.num, (p + 1) * ema.den)

\* for p = 0 the seed is 0 / 0, and for p < 0 the loop starts at index p, where
\* values[p] is undefined: the ema is NaN from there on
computeEMA(s, p) ==
    IF Len(s) < p THEN Null
    ELSE IF p <= 0 THEN Ratio(0, 0)
    ELSE Smooth(s, p, Len(s))

\* the falls of the last p differences counted as rises
RECURSIVE Moves(_, _, _)
Moves(s, i, up) ==
    IF i > Len(s) THEN 0
    ELSE LET diff == s[i] - s[i - 1]
         IN  (IF up = (diff >= 0) THEN Abs(diff) ELSE 0) + Moves(s, i + 1, up)

computeRSIOfMoves(s, p) ==
    IF Len(s) < p + 1 THEN Null
    ELSE LET gains  == Moves(s, Len(s) - p + 1, TRUE)
             losses == Moves(s, Len(s) - p + 1, FALSE)
         IN  IF gains = 0 THEN Ratio(100, 1)
             ELSE Ratio(100 * losses, gains + losses)

\* gains and losses over the last p differences; avgLoss = 0 gives 100, else
\* 100 - 100 / (1 + avgGain / avgLoss), which is 100 * gains / (gains + losses)
\* (for p <= 0 the loop has no step; 0 / p is 0 for p < 0 and NaN for p = 0)
computeRSI(s, p) ==
    IF Len(s) < p + 1 THEN Null
    ELSE LET gains   == Moves(s, Len(s) - p + 1, TRUE)
             losses  == Moves(s, Len(s) - p + 1, FALSE)
             avgLoss == Ratio(losses, p)
         IN  IF avgLoss = Ratio(0, 1) THEN Ratio(100, 1)
             ELSE IF avgLoss.den = 0 THEN Ratio(0, 0)
             ELSE Ratio(100 * gains, gains + losses)

\* a - b of two fractions
Minus(a, b) == Ratio(a.num * b.den - b.num * a.den, a.den * b.den)

\* ema12 != null && ema26 != null ? (ema12 - ema26) : null
Macd(s) ==
    LET ema12 == computeEMA(s, 12)
        ema26 == computeEMA(s, 26)
    IN  IF ~ema12.null /\ ~ema26.null THEN Minus(ema12, ema26) ELSE Null

\* the answers of stockAPI.getStockData(symbol, 250): a failure, an answer
\* without data, or rows oldest first
HistFailed == [ok |-> FALSE, hasData |-> FALSE, data |-> <<>>]
HistNoData == [ok |-> TRUE, hasData |-> FALSE, data |-> <<>>]
HistRows(rows) == [ok |-> TRUE, hasData |-> TRUE, data |-> rows]

Row(c, a) == [Close |-> c, AdjClose |-> a]

\* Number(d.Close ?? d['Adj close'] ?? 0)
CloseOf(d) ==
    IF d.Close.has THEN d.Close.v ELSE IF d.AdjClose.has THEN d.AdjClose.v ELSE 0

\* (hist?.data || []).map(...).filter(v => Number.isFinite(v) && v > 0)
Closes(hist) ==
    LET rows == IF hist.hasData THEN hist.data ELSE <<>>
    IN  SelectSeq([i \in 1..Len(rows) |-> CloseOf(rows[i])], LAMBDA v : v > 0)

\* v != null ? Number(v).toFixed(digits) : 'N/A', the number in units of
\* 10^-digits, a tie going away from zero
Shown(v, digits) ==
    IF v.null THEN [na |-> TRUE, units |-> 0]
    ELSE LET u == (2 * Abs(v.num) * Pow10(digits) + v.den) \div (2 * v.den)
         IN  [na |-> FALSE, units |-> IF v.num < 0 THEN -u ELSE u]

\* technicalIndicators of the stored record
TechnicalIndicators(closes) ==
    [rsi          |-> Shown(computeRSI(closes, 14), 1),
     macd         |-> Shown(Macd(closes), 2),
     movingAvg50  |-> Shown(computeSMA(closes, 50), 2),
     movingAvg200 |-> Shown(computeSMA(closes, 200), 2)]

\* stockAPI.getStockData answers; the indicators are computed and the result
\* is stored
HistDone(resp) ==
    /\ call.pc = "hist"
    /\ IF ~resp.ok THEN Fails("history")
       ELSE /\ predictionData' =
                  [present |-> TRUE, stock |-> call.stock, modelUsed |-> call.modelType,
                   timeframe |-> call.timeframe, latest |-> call.latest,
                   request |-> call.request, closes |-> Closes(resp),
                   technicalIndicators |-> TechnicalIndicators(Closes(resp)),
                   derived |-> Derived(LatestCloseOf(call.latest), call.result)]
            /\ pLoading' = FALSE
            /\ call' = [pc |-> "idle"]
            /\ UNCHANGED pError
    /\ UNCHANGED <<selectedStock, timeframe, modelType>>
    /\ UNCHANGED <<avars, dvars, ivars, uvars>>

\* a history of n rows that rises at its last row; 15 rows give an RSI, 26 a
\* MACD as well, and no history here is long enough for the moving averages
Rising(n) == HistRows([i \in 1..n |-> Row(Num(IF i = n THEN 151 ELSE 150), Absent)])

HistResponses == {HistFailed, HistRows(<<Row(Num(150), Absent)>>)}

ForecastHistResponses ==
    {HistFailed, HistNoData, HistRows(<<>>),
     HistRows(<<Row(Num(0), Num(149))>>), HistRows(<<Row(Absent, Num(149))>>)}
    \cup {Rising(n) : n \in {15, 26}}

NoIndicator == [name |-> "none", value |-> Null]

CallSMA ==
    /\ indicator' = [name |-> "sma", value |-> computeSMA(values, period)]
    /\ UNCHANGED <<values, period, avars, pvars, dvars, uvars>>

CallEMA ==
    /\ indicator' = [name |-> "ema", value |-> computeEMA(values, period)]
    /\ UNCHANGED <<values, period, avars, pvars, dvars, uvars>>

CallRSI ==
    /\ indicator' = [name |-> "rsi", value |-> computeRSI(values, period)]
    /\ UNCHANGED <<values, period, avars, pvars, dvars, uvars>>

\* the macd of runPrediction on the series
CallMacd ==
    /\ indicator' = [name |-> "macd", value |-> Macd(values)]
    /\ UNCHANGED <<values, period, avars, pvars, dvars, uvars>>

(***************************************************************************)
(* The dashboard panel: generatePrediction.                                *)
(***************************************************************************)
PanelCalls == 1..MaxPanelCalls
PanelStocks == {"AAPL", "TSLA"}
PanelHorizon == 3

NoForecast == [present |-> FALSE]
IdlePanelCall == [pc |-> "idle", stock |-> ""]

\* x || y on numbers: y when x is 0 (or not a number)
OrElse(x, y) == IF x = 0 THEN y ELSE x

\* the record generatePrediction stores for an answer with a predictions array;
\* changePercent is kept in hundredths
PanelForecast(stock, result) ==
    LET currentPrice    == result.current_price
        firstPrediction == IF Len(result.predictions) > 0
                           THEN OrElse(result.predictions[1], currentPrice)
                           ELSE currentPrice
        direction       == IF firstPrediction > currentPrice THEN "UP" ELSE "DOWN"
        changePercent   == IF currentPrice > 0
                           THEN ToFixed2(Frac((firstPrediction - currentPrice) * 100,
                                              currentPrice))
                           ELSE 0
    IN  [present       |-> TRUE,
         stock         |-> stock,
         direction     |-> direction,
         confidence    |-> ConfidenceFormula(result.predictions, currentPrice),
         targetPrice   |-> firstPrediction,
         changePercent |-> changePercent,
         currentPrice  |-> currentPrice,
         predictions   |-> result.predictions]

\* the label the panel renders for a stored direction
PanelLabel(direction) == IF direction = "UP" THEN "BULLISH" ELSE "BEARISH"

\* generatePrediction up to its await, as call number c
Generate(c) ==
    /\ panelCalls[c].pc = "idle"
    /\ \A q \in PanelCalls : q < c => panelCalls[q].pc # "idle"
    /\ panelStock' # ""
    /\ panelLoading' = TRUE
    /\ panelError' = "null"
    /\ panelCalls' = [panelCalls EXCEPT ![c] = [pc |-> "predict", stock |-> panelStock']]
    /\ UNCHANGED prediction

\* the dashboard renders the panel for its selected stock; the effect runs.  The
\* dashboard and the prediction page are two routes: one of them is shown
PanelMount(stock) ==
    /\ ~panelMounted
    /\ call.pc = "idle" /\ ~pLoading /\ ~predictionData.present /\ pError = "null"
    /\ panelMounted' = TRUE
    /\ panelStock' = stock
    /\ \E c \in PanelCalls : Generate(c)
    /\ UNCHANGED <<avars, pvars, ivars, uvars>>

\* the selected stock of the dashboard changes; the effect runs again
PanelSelectStock(stock) ==
    /\ panelMounted
    /\ stock # panelStock
    /\ panelStock' = stock
    /\ \E c \in PanelCalls : Generate(c)
    /\ UNCHANGED panelMounted
    /\ UNCHANGED <<avars, pvars, ivars, uvars>>

\* Retry, Refresh Prediction or Generate Prediction; none is rendered while loading
PanelClick ==
    /\ panelMounted
    /\ ~panelLoading
    /\ panelStock' = panelStock
    /\ \E c \in PanelCalls : Generate(c)
    /\ UNCHANGED panelMounted
    /\ UNCHANGED <<avars, pvars, ivars, uvars>>

\* predictionAPI.predict of call c answers; reading predictions[0] of an answer
\* without a predictions array throws inside the try
PanelPredictDone(c, resp) ==
    /\ panelCalls[c].pc = "predict"
    /\ panelCalls' = [panelCalls EXCEPT ![c] = [pc |-> "done", stock |-> @.stock]]
    /\ IF ~resp.ok \/ ~resp.isArray
       THEN /\ panelError' = (IF resp.ok THEN "TypeError" ELSE "predict")
            /\ prediction' = NoForecast
       ELSE /\ prediction' = PanelForecast(panelCalls[c].stock, resp)
            /\ UNCHANGED panelError
    /\ panelLoading' = FALSE
    /\ UNCHANGED <<panelMounted, panelStock>>
    /\ UNCHANGED <<avars, pvars, ivars, uvars>>

(***************************************************************************)
(* Signing in: authService, the SignIn page and the routes of App.  A PIN  *)
(* is a sequence of digits, <<>> when none is stored.                      *)
(***************************************************************************)
NoPin == <<>>
TwoFactorOff == [twoFactorEnabled |-> FALSE, pin |-> NoPin]
TwoFactorOn(pin) == [twoFactorEnabled |-> TRUE, pin |-> pin]

UserPassword == "demo123"
Passwords == {"", UserPassword, "wrong"}
Pins == {<<1, 2>>, <<0, 0, 0, 0>>, <<1, 2, 3, 4>>}

\* securitySettings?.twoFactorEnabled === true && securitySettings?.pin
is2FAEnabled == securitySettings.twoFactorEnabled /\ securitySettings.pin # NoPin

\* authService.isAuthenticated(): a stored session (its expiry left aside)
IsAuthenticated(stored) == stored # "null"

\* authService.verifyPin
verifyPin(enteredPin) ==
    IF securitySettings.pin = NoPin THEN [success |-> FALSE, message |-> "No PIN configured"]
    ELSE IF enteredPin = securitySettings.pin THEN [success |-> TRUE, message |-> ""]
    ELSE [success |-> FALSE, message |-> "Incorrect PIN"]

AuthFrame == UNCHANGED <<avars, pvars, dvars, ivars>>

\* handleSubmit up to the await of authService.signIn; the button is disabled
\* while loading
HandleSubmit(password) ==
    /\ route = "signin" /\ ~isAuthenticated /\ ~showPinStep
    /\ signing = "none"
    /\ IF password = ""
       THEN /\ authError' = "Password is required"
            /\ UNCHANGED signing
       ELSE /\ authError' = ""
            /\ signing' = password
    /\ UNCHANGED <<securitySettings, currentUser, isAuthenticated, route, showPinStep,
                   pinDue, pinEntries>>
    /\ UNCHANGED settingsError
    /\ AuthFrame

\* authService.signIn settles: a wrong password rejects; the right one stores the
\* session and resolves, and handleSubmit shows the PIN step or completes
SignInDone ==
    /\ signing # "none"
    /\ signing' = "none"
    /\ IF signing # UserPassword
       THEN /\ authError' = "Invalid email or password"
            /\ UNCHANGED <<currentUser, isAuthenticated, route, showPinStep, pinDue>>
       ELSE /\ currentUser' = "session"
            /\ pinDue' = is2FAEnabled
            /\ UNCHANGED authError
            /\ IF is2FAEnabled
               THEN /\ showPinStep' = TRUE
                    /\ UNCHANGED <<isAuthenticated, route>>
               ELSE /\ isAuthenticated' = TRUE
                    /\ route' = "protected"
                    /\ UNCHANGED showPinStep
    /\ UNCHANGED <<securitySettings, pinEntries>>
    /\ UNCHANGED settingsError
    /\ AuthFrame

\* handlePinSubmit
HandlePinSubmit(pin) ==
    /\ route = "signin" /\ ~isAuthenticated /\ showPinStep
    /\ pinEntries < MaxPinEntries
    /\ pinEntries' = pinEntries + 1
    /\ IF Len(pin) # 4
       THEN /\ authError' = "Please enter your 4-digit PIN"
            /\ UNCHANGED <<isAuthenticated, route, showPinStep, pinDue>>
       ELSE IF verifyPin(pin).success
            THEN /\ isAuthenticated' = TRUE
                 /\ route' = "protected"
                 /\ showPinStep' = FALSE
                 /\ pinDue' = FALSE
                 /\ authError' = ""
            ELSE /\ authError' = verifyPin(pin).message
                 /\ UNCHANGED <<isAuthenticated, route, showPinStep, pinDue>>
    /\ UNCHANGED <<securitySettings, currentUser, signing>>
    /\ UNCHANGED settingsError
    /\ AuthFrame

\* handleBackToPassword signs the pending session out
handleBackToPassword ==
    /\ route = "signin" /\ ~isAuthenticated /\ showPinStep
    /\ showPinStep' = FALSE
    /\ authError' = ""
    /\ currentUser' = "null"
    /\ pinDue' = FALSE
    /\ UNCHANGED <<securitySettings, isAuthenticated, route, signing, pinEntries>>
    /\ UNCHANGED settingsError
    /\ AuthFrame

\* the application is loaded again: App takes isAuthenticated from authService,
\* the state of SignIn is new, and the routes redirect
Reload ==
    /\ isAuthenticated' = IsAuthenticated(currentUser)
    /\ route' = IF IsAuthenticated(currentUser) THEN "protected" ELSE "signin"
    /\ showPinStep' = FALSE
    /\ signing' = "none"
    /\ authError' = ""
    /\ UNCHANGED <<securitySettings, currentUser, pinDue, pinEntries>>
    /\ settingsError' = "null"
    /\ AuthFrame

\* handleLogout of a protected page
handleLogout ==
    /\ route = "protected" /\ isAuthenticated
    /\ currentUser' = "null"
    /\ isAuthenticated' = FALSE
    /\ route' = "signin"
    /\ pinDue' = FALSE
    /\ UNCHANGED <<securitySettings, showPinStep, signing, authError, pinEntries>>
    /\ settingsError' = "null"
    /\ AuthFrame

\* toggle2FA(false) of Settings, a protected page: 2FA is disabled and the PIN
\* cleared
disable2FA ==
    /\ route = "protected" /\ isAuthenticated
    /\ securitySettings' = TwoFactorOff
    /\ UNCHANGED <<currentUser, isAuthenticated, route, showPinStep, signing, authError,
                   pinDue, settingsError, pinEntries>>
    /\ AuthFrame

\* handleSetupPin of Settings (the modal lets digits only be typed)
handleSetupPin(pin, confirmPin) ==
    /\ route = "protected" /\ isAuthenticated
    /\ IF Len(pin) # 4
       THEN /\ settingsError' = "PIN must be exactly 4 digits"
            /\ UNCHANGED securitySettings
       ELSE IF pin # confirmPin
            THEN /\ settingsError' = "PINs do not match"
                 /\ UNCHANGED securitySettings
            ELSE /\ settingsError' = "null"
                 /\ securitySettings' = TwoFactorOn(pin)
    /\ UNCHANGED <<currentUser, isAuthenticated, route, showPinStep, signing, authError,
                   pinDue, pinEntries>>
    /\ AuthFrame

\* the pages above are protected routes: they are used by a user signed in
SignedIn ==
    /\ securitySettings = TwoFactorOff
    /\ currentUser = "session"
    /\ isAuthenticated = TRUE
    /\ route = "protected"
    /\ showPinStep = FALSE
    /\ signing = "none"
    /\ authError = ""
    /\ pinDue = FALSE
    /\ settingsError = "null"
    /\ pinEntries = 0

(***************************************************************************)
(* The alert page as a state machine.                                      *)
(***************************************************************************)
\* the stored watchlists of the model
Watchlists == {StoredWatchlist(<<"TSLA">>), StoredWatchlist(<<"TSLA", "NVDA">>)}

StoredSettings == {NoSettings} \cup {[stored |-> TRUE, flags |-> f] : f \in Flags}

\* the prediction page before any click
NoIndicatorCall ==
    /\ values = <<>>
    /\ period = 14
    /\ indicator = NoIndicator

PanelIdle ==
    /\ panelMounted = FALSE
    /\ panelStock = ""
    /\ prediction = NoForecast
    /\ panelLoading = FALSE
    /\ panelError = "null"
    /\ panelCalls = [c \in PanelCalls |-> IdlePanelCall]

PredictionIdle ==
    /\ selectedStock = "AAPL"
    /\ timeframe = "1D"
    /\ modelType = "LSTM"
    /\ predictionData = NoData
    /\ pLoading = FALSE
    /\ pError = "null"
    /\ call = IdleCall
    /\ PanelIdle
    /\ SignedIn
    /\ NoIndicatorCall

Init ==
    /\ PredictionIdle
    /\ notificationSettings \in StoredSettings
    /\ watchlist \in Watchlists
    /\ providers = FullProviders
    /\ mounted = FALSE
    /\ alerts = <<>>
    /\ loading = FALSE
    /\ error = "null"
    /\ runs = [r \in Runs |-> IdleRun]
    /\ clock = 0
    /\ installs = <<>>
    /\ touched = FALSE

UserNext ==
    \/ \E i \in 1..(PriceBatch + SentimentBatch + PredictionBatch) : markAsRead(i)
    \/ markAllAsRead
    \/ \E i \in 1..(PriceBatch + SentimentBatch + PredictionBatch) : deleteAlert(i)
    \/ clearAllAlerts

\* the page on its own: one run, started by the mount effect
Next ==
    \/ Mount
    \/ \E r \in Runs : \E k \in 1..PriceBatch : FetchDone(r, k)

Spec == Init /\ [][Next]_vars

\* one run and the user marking and deleting its alerts
InitUser ==
    /\ PredictionIdle
    /\ notificationSettings = NoSettings
    /\ watchlist \in Watchlists
    /\ providers = SteadyProviders
    /\ mounted = FALSE
    /\ alerts = <<>>
    /\ loading = FALSE
    /\ error = "null"
    /\ runs = [r \in Runs |-> IdleRun]
    /\ clock = 0
    /\ installs = <<>>
    /\ touched = FALSE

NextUser ==
    \/ Mount
    \/ \E r \in Runs : \E k \in 1..PriceBatch : FetchDone(r, k)
    \/ UserNext

UserSpec == InitUser /\ [][NextUser]_vars

\* one run over quotes and forecasts around the severity thresholds
InitThreshold ==
    /\ PredictionIdle
    /\ notificationSettings = NoSettings
    /\ watchlist \in Watchlists
    /\ providers = ThresholdProviders
    /\ mounted = FALSE
    /\ alerts = <<>>
    /\ loading = FALSE
    /\ error = "null"
    /\ runs = [r \in Runs |-> IdleRun]
    /\ clock = 0
    /\ installs = <<>>
    /\ touched = FALSE

ThresholdSpec == InitThreshold /\ [][Next]_vars

\* watchlists of every stored shape, up to more symbols than a batch takes
NineSymbols == <<"TSLA", "NVDA", "AMD", "META", "AMZN", "NFLX", "INTC", "IBM", "ORCL">>

StoredShapes ==
    {WatchlistMissing, WatchlistUnparseable, WatchlistNotArray,
     StoredWatchlist(<<>>), StoredWatchlist(<<"", "">>),
     StoredWatchlist(<<NullEntry, "TSLA">>), StoredWatchlist(<<"tsla", "", "nvda", "AMD">>),
     StoredWatchlist(SubSeq(NineSymbols, 1, 7)), StoredWatchlist(NineSymbols)}

InitBatch ==
    /\ PredictionIdle
    /\ notificationSettings = NoSettings
    /\ watchlist \in StoredShapes
    /\ providers = ForecastOnlyProviders
    /\ mounted = FALSE
    /\ alerts = <<>>
    /\ loading = FALSE
    /\ error = "null"
    /\ runs = [r \in Runs |-> IdleRun]
    /\ clock = 0
    /\ installs = <<>>
    /\ touched = FALSE

BatchSpec == InitBatch /\ [][Next]_vars

\* overlapping runs over two symbols, the preferences saved being price alerts
\* alone or price and sentiment alerts
PriceOnly ==
    [priceAlerts |-> TRUE, sentimentAlerts |-> FALSE, predictionAlerts |-> FALSE,
     newsAlerts |-> FALSE]

PriceAndSentiment == [PriceOnly EXCEPT !.sentimentAlerts = TRUE]

InitOverlap ==
    /\ PredictionIdle
    /\ notificationSettings = [stored |-> TRUE, flags |-> PriceOnly]
    /\ watchlist = StoredWatchlist(<<"TSLA", "NVDA">>)
    /\ providers = SteadyProviders
    /\ mounted = FALSE
    /\ alerts = <<>>
    /\ loading = FALSE
    /\ error = "null"
    /\ runs = [r \in Runs |-> IdleRun]
    /\ clock = 0
    /\ installs = <<>>
    /\ touched = FALSE

NextOverlap ==
    \/ Mount
    \/ \E r \in Runs : \E k \in 1..PriceBatch : FetchDone(r, k)
    \/ \E f \in {PriceOnly, PriceAndSentiment} : SaveNotifications(f)

OverlapSpec == InitOverlap /\ [][NextOverlap]_vars

\* the same with the watchlist changed from the Watchlist page meanwhile
NextSnapshot ==
    \/ NextOverlap
    \/ \E w \in {StoredWatchlist(<<"TSLA", "NVDA">>), StoredWatchlist(<<"NVDA">>)} :
          SaveWatchlist(w)

SnapshotSpec == InitOverlap /\ [][NextSnapshot]_vars

\* the page with the Settings broadcasts that start further runs, the user idle
InitRefresh ==
    /\ PredictionIdle
    /\ notificationSettings = NoSettings
    /\ watchlist = StoredWatchlist(<<"TSLA">>)
    /\ providers = SteadyProviders
    /\ mounted = FALSE
    /\ alerts = <<>>
    /\ loading = FALSE
    /\ error = "null"
    /\ runs = [r \in Runs |-> IdleRun]
    /\ clock = 0
    /\ installs = <<>>
    /\ touched = FALSE

NextRefresh ==
    \/ Mount
    \/ \E r \in Runs : \E k \in 1..PriceBatch : FetchDone(r, k)
    \/ \E f \in Flags : SaveNotifications(f)

RefreshSpec == InitRefresh /\ [][NextRefresh]_vars

\* the prediction page, the alert page not mounted
InitPrediction ==
    /\ PredictionIdle
    /\ notificationSettings = NoSettings
    /\ watchlist = WatchlistMissing
    /\ providers = FullProviders
    /\ mounted = FALSE
    /\ alerts = <<>>
    /\ loading = FALSE
    /\ error = "null"
    /\ runs = [r \in Runs |-> IdleRun]
    /\ clock = 0
    /\ installs = <<>>
    /\ touched = FALSE

NextPrediction ==
    \/ \E m \in ModelTypes : SetModelType(m)
    \/ \E tf \in Timeframes : SetTimeframe(tf)
    \/ RunPrediction
    \/ \E resp \in LatestResponses : LatestDone(resp)
    \/ \E resp \in AnyInferenceResponse : PredictDone(resp)
    \/ \E resp \in HistResponses : HistDone(resp)

PredictionSpec == InitPrediction /\ [][NextPrediction]_vars

\* the forecasts of the prediction page and of the dashboard panel, for a
\* model family and a timeframe chosen beforehand
InitForecast ==
    /\ selectedStock = "AAPL"
    /\ timeframe \in Timeframes
    /\ modelType \in {"LSTM", "TRANSFORMER"}
    /\ predictionData = NoData
    /\ pLoading = FALSE
    /\ pError = "null"
    /\ call = IdleCall
    /\ PanelIdle
    /\ SignedIn
    /\ NoIndicatorCall
    /\ notificationSettings = NoSettings
    /\ watchlist = WatchlistMissing
    /\ providers = FullProviders
    /\ mounted = FALSE
    /\ alerts = <<>>
    /\ loading = FALSE
    /\ error = "null"
    /\ runs = [r \in Runs |-> IdleRun]
    /\ clock = 0
    /\ installs = <<>>
    /\ touched = FALSE

NextForecast ==
    \/ RunPrediction
    \/ \E resp \in LatestResponses : LatestDone(resp)
    \/ \E resp \in AnyForecastResponse : PredictDone(resp)
    \/ \E resp \in ForecastHistResponses : HistDone(resp)
    \/ \E stock \in PanelStocks : PanelMount(stock)
    \/ \E stock \in PanelStocks : PanelSelectStock(stock)
    \/ PanelClick
    \/ \E c \in PanelCalls : \E resp \in ForecastResponses(PanelHorizon) :
          PanelPredictDone(c, resp)

ForecastSpec == InitForecast /\ [][NextForecast]_vars

\* the indicators on their own: short series of every shape, and longer series
\* that are flat up to a last move
ShortSeries == UNION {[1..n -> {1, 2, 4}] : n \in 0..MaxLen}

Flat(c, n, v) == [i \in 1..n |-> IF i = n THEN v ELSE c]

LongSeries == {Flat(10, n, v) : n \in {11, 12, 13, 14, 15, 25, 26, 27}, v \in {9, 10, 12}}

Periods == (1..MaxPeriod) \cup {12, 14, 26}

InitIndicator ==
    /\ values \in ShortSeries \cup LongSeries
    /\ period \in Periods
    /\ indicator = NoIndicator
    /\ selectedStock = "AAPL"
    /\ timeframe = "1D"
    /\ modelType = "LSTM"
    /\ predictionData = NoData
    /\ pLoading = FALSE
    /\ pError = "null"
    /\ call = IdleCall
    /\ PanelIdle
    /\ SignedIn
    /\ notificationSettings = NoSettings
    /\ watchlist = WatchlistMissing
    /\ providers = FullProviders
    /\ mounted = FALSE
    /\ alerts = <<>>
    /\ loading = FALSE
    /\ error = "null"
    /\ runs = [r \in Runs |-> IdleRun]
    /\ clock = 0
    /\ installs = <<>>
    /\ touched = FALSE

\* the same with periods that are not positive
BadPeriods == {-2, -1, 0}

InitContract ==
    /\ values \in ShortSeries \cup LongSeries
    /\ period \in BadPeriods \cup (1..MaxPeriod)
    /\ indicator = NoIndicator
    /\ selectedStock = "AAPL"
    /\ timeframe = "1D"
    /\ modelType = "LSTM"
    /\ predictionData = NoData
    /\ pLoading = FALSE
    /\ pError = "null"
    /\ call = IdleCall
    /\ PanelIdle
    /\ SignedIn
    /\ notificationSettings = NoSettings
    /\ watchlist = WatchlistMissing
    /\ providers = FullProviders
    /\ mounted = FALSE
    /\ alerts = <<>>
    /\ loading = FALSE
    /\ error = "null"
    /\ runs = [r \in Runs |-> IdleRun]
    /\ clock = 0
    /\ installs = <<>>
    /\ touched = FALSE

NextIndicator == CallSMA \/ CallEMA \/ CallRSI \/ CallMacd

IndicatorSpec == InitIndicator /\ [][NextIndicator]_vars

\* signing in, with and without a PIN stored, the other pages not shown
InitAuth ==
    /\ securitySettings \in {TwoFactorOff, TwoFactorOn(<<1, 2, 3, 4>>)}
    /\ currentUser = "null"
    /\ isAuthenticated = FALSE
    /\ route = "signin"
    /\ showPinStep = FALSE
    /\ signing = "none"
    /\ authError = ""
    /\ pinDue = FALSE
    /\ settingsError = "null"
    /\ pinEntries = 0
    /\ NoIndicatorCall
    /\ selectedStock = "AAPL"
    /\ timeframe = "1D"
    /\ modelType = "LSTM"
    /\ predictionData = NoData
    /\ pLoading = FALSE
    /\ pError = "null"
    /\ call = IdleCall
    /\ panelMounted = FALSE
    /\ panelStock = ""
    /\ prediction = NoForecast
    /\ panelLoading = FALSE
    /\ panelError = "null"
    /\ panelCalls = [c \in PanelCalls |-> IdlePanelCall]
    /\ notificationSettings = NoSettings
    /\ watchlist = WatchlistMissing
    /\ providers = FullProviders
    /\ mounted = FALSE
    /\ alerts = <<>>
    /\ loading = FALSE
    /\ error = "null"
    /\ runs = [r \in Runs |-> IdleRun]
    /\ clock = 0
    /\ installs = <<>>
    /\ touched = FALSE

NextAuth ==
    \/ \E password \in Passwords : HandleSubmit(password)
    \/ SignInDone
    \/ \E pin \in Pins : HandlePinSubmit(pin)
    \/ handleBackToPassword
    \/ Reload
    \/ handleLogout
    \/ disable2FA
    \/ \E pin, confirmPin \in Pins : handleSetupPin(pin, confirmPin)

AuthSpec == InitAuth /\ [][NextAuth]_vars

ContractSpec == InitContract /\ [][NextIndicator]_vars

(***************************************************************************)
(* The ordering contract, stated on its own.                               *)
(***************************************************************************)
SeverityOrder == <<"high", "medium", "low">>
SeverityPlace(sv) == CHOOSE i \in 1..Len(SeverityOrder) : SeverityOrder[i] = sv

\* a may stand before b
MayPrecede(a, b) ==
    /\ ~(a.read /\ ~b.read)
    /\ a.read = b.read => SeverityPlace(a.severity) <= SeverityPlace(b.severity)
    /\ (a.read = b.read /\ a.severity = b.severity) => a.id > b.id

Ordered(list) == \A i, j \in 1..Len(list) : i < j => MayPrecede(list[i], list[j])

Types == {"price", "sentiment", "prediction"}
Done(r) == runs[r].pc = "done"
LastInstall == installs[Len(installs)]

\* C1: the list a completed loadAlerts installs is totally ordered: unread before
\* read, then high, medium, low, then descending id.
C1_InstalledListOrdered ==
    /\ \A r \in Runs : Done(r) => Ordered(runs[r].built)
    /\ (installs # <<>> /\ ~touched) =>
           (alerts = runs[LastInstall].built /\ Ordered(alerts))

C1_Witness ==
    /\ installs # <<>> /\ ~touched
    /\ Len(alerts) >= 4
    /\ \E i, j \in 1..Len(alerts) : i < j /\ alerts[i].severity = alerts[j].severity
    /\ \E i, j \in 1..Len(alerts) : alerts[i].severity # alerts[j].severity

\* C2 (as claimed): after any sequence of markAsRead, markAllAsRead and deleteAlert
\* on a synthesized list, the list still satisfies the ordering contract.
C2_OrderedAfterEveryAction == installs # <<>> => Ordered(alerts)

\* C3 (as claimed): a signal type whose own preference flag is false in the
\* preferences a run read is neither fetched nor present in the run's result.
OwnFlag(ns, type) ==
    CASE type = "price"      -> ns.priceAlerts
      [] type = "sentiment"  -> ns.sentimentAlerts
      [] type = "prediction" -> ns.predictionAlerts

C3_OwnFlagGatesType ==
    \A r \in Runs : \A t \in Types :
        (runs[r].pc # "idle" /\ ~OwnFlag(runs[r].ns, t)) =>
            /\ \A f \in runs[r].fetched : f[1] # t
            /\ \A i \in 1..Len(runs[r].built) : runs[r].built[i].type # t

\* the answer run r got for the alert a
AnswerFor(r, a) ==
    LET syms == PhaseSymbols(runs[r].symbols, a.type)
        k    == CHOOSE k \in 1..Len(syms) : syms[k] = a.stock
    IN  runs[r].answers[<<a.type, k>>]

\* C4: a sentiment alert is emitted only for a fetched score >= 0.62 or <= 0.38;
\* none for a score strictly between, none when the provider returns no score.
C4_SentimentOutsideBand ==
    /\ \A r \in Runs : \A i \in 1..Len(runs[r].built) :
          LET a == runs[r].built[i]
          IN  a.type = "sentiment" =>
                /\ AnswerFor(r, a).ok /\ AnswerFor(r, a).hasScore
                /\ AnswerFor(r, a).score >= 620 \/ AnswerFor(r, a).score <= 380
                /\ a.val = Frac(AnswerFor(r, a).score, 1000)
    /\ \A i \in 1..Len(alerts) :
          alerts[i].type = "sentiment" =>
              (alerts[i].val.num >= 620 \/ alerts[i].val.num <= 380)

C4_Witness ==
    \E r \in Runs :
        /\ Done(r) /\ Len(runs[r].symbols) = 2
        /\ <<"sentiment", 1>> \in DOMAIN runs[r].answers
        /\ runs[r].answers[<<"sentiment", 1>>] = SentimentNoScore
        /\ runs[r].answers[<<"sentiment", 2>>] = SentimentScore(620)
        /\ \E i \in 1..Len(alerts) : alerts[i].type = "sentiment" /\ alerts[i].stock = "NVDA"
        /\ \A i \in 1..Len(alerts) : alerts[i].type = "sentiment" => alerts[i].stock # "TSLA"

\* the emission rule of a type, on an answer that arrived
RuleHolds(type, resp) ==
    type = "sentiment" => (resp.hasScore /\ (resp.score >= 620 \/ resp.score <= 380))

AlertsOf(list, type, sym) ==
    {i \in 1..Len(list) : list[i].type = type /\ list[i].stock = sym}

\* C5: a failing fetch never aborts the run: no batch-level error is set, a run in
\* flight can always go on, and the result of a completed run holds exactly one alert
\* for each fetched (symbol, type) whose fetch succeeded and whose emission rule
\* holds, and none for any other.
C5_FailureSkipsOnlyItsOwnAlert ==
    /\ error = "null"
    /\ \A r \in Runs : InFlight(r) => runs[r].pending # {}
    /\ \A r \in Runs : Done(r) =>
          /\ \A t \in Types :
                LET syms == PhaseSymbols(runs[r].symbols, t)
                IN  \A k \in 1..Len(syms) :
                      IF /\ <<t, k>> \in DOMAIN runs[r].answers
                         /\ runs[r].answers[<<t, k>>].ok
                         /\ RuleHolds(t, runs[r].answers[<<t, k>>])
                      THEN Cardinality(AlertsOf(runs[r].built, t, syms[k])) = 1
                      ELSE AlertsOf(runs[r].built, t, syms[k]) = {}
          /\ \A i \in 1..Len(runs[r].built) :
                \E k \in 1..Len(runs[r].symbols) :
                    runs[r].symbols[k] = runs[r].built[i].stock

C5_Witness ==
    \E r \in Runs :
        /\ Done(r) /\ Len(runs[r].symbols) = 2
        /\ \A k \in 1..2 : /\ <<"sentiment", k>> \in DOMAIN runs[r].answers
                           /\ ~runs[r].answers[<<"sentiment", k>>].ok
        /\ <<"price", 1>> \in DOMAIN runs[r].answers
        /\ ~runs[r].answers[<<"price", 1>>].ok
        /\ AlertsOf(alerts, "price", "NVDA") # {}
        /\ AlertsOf(alerts, "prediction", "TSLA") # {}
        /\ AlertsOf(alerts, "prediction", "NVDA") # {}

\* the fetches of a run in the order they are issued
RECURSIVE IssuedFrom(_, _)
IssuedFrom(run, i) ==
    IF i > Len(Phases) THEN <<>>
    ELSE (IF PhaseGate(run.ns, Phases[i])
          THEN [k \in 1..Len(PhaseSymbols(run.symbols, Phases[i])) |-> <<Phases[i], k>>]
          ELSE <<>>) \o IssuedFrom(run, i + 1)

\* what the run builds from the same answers when its fetches complete in the
\* order they were issued
RECURSIVE Replayed(_, _, _, _)
Replayed(run, r, issued, id) ==
    IF issued = <<>> THEN <<>>
    ELSE LET f   == Head(issued)
             new == Emitted(f[1], PhaseSymbols(run.symbols, f[1])[f[2]],
                            run.answers[f], id, r)
         IN  new \o Replayed(run, r, Tail(issued), id + Len(new))

StockAndType(list) == [i \in 1..Len(list) |-> <<list[i].stock, list[i].type>>]

\* C6 (as claimed): for fixed symbols, preferences and answers, the final order of
\* the (symbol, type) pairs is the same for every completion order of the fetches.
C6_OrderIndependentOfCompletion ==
    \A r \in Runs : Done(r) =>
        StockAndType(runs[r].built) =
            StockAndType(SortAlerts(Replayed(runs[r], r, IssuedFrom(runs[r], 1),
                                             runs[r].nextId - Len(runs[r].built))))

\* C7: when runs overlap, the list shown is at every moment the result of one
\* single run, the one that completed last: no alert of another run is in it.
C7_LastCompletedRunShown ==
    installs # <<>> =>
        /\ alerts = runs[LastInstall].built
        /\ \A i \in 1..Len(alerts) : alerts[i].run = LastInstall

C7_Witness ==
    /\ runs[2].overlapped
    /\ installs = <<2, 1>>
    /\ runs[2].built # <<>>
    /\ Len(runs[1].built) = 3
    /\ Len(runs[2].built) < 3

(***************************************************************************)
(* The prediction page.                                                    *)
(***************************************************************************)
\* the request runPrediction has sent to the inference provider, if any
Sent == call.pc \in {"predict", "hist"}

UnknownToken == "6M"

\* C8: for model family TIMESNET the prediction_length sent to the inference
\* provider is exactly 3, for each of the timeframe tokens 1D, 3D, 1W, 2W, 1M
\* and for a token the table does not know.
C8_TimesNetLengthIsThree ==
    /\ \A tf \in Timeframes \cup {UnknownToken} : PredictionLength(tf, "TIMESNET") = 3
    /\ (Sent /\ call.request.model_type = "TIMESNET")
          => call.request.prediction_length = 3

C8_Witness ==
    /\ Sent
    /\ call.request.model_type = "TIMESNET"
    /\ call.timeframe = "1M"
    /\ call.request.prediction_length = 3

\* C9: for model family TRANSFORMER the prediction_length sent to the inference
\* provider is min(3, max(1, requested)), requested being the table value of the
\* timeframe, and so lies between 1 and 3.
C9_TransformerLengthClamped ==
    /\ \A tf \in Timeframes \cup {UnknownToken} :
          LET requested == getPredictionLengthForTimeframe(tf)
              floor     == IF requested < 1 THEN 1 ELSE requested
          IN  PredictionLength(tf, "TRANSFORMER") = (IF floor > 3 THEN 3 ELSE floor)
    /\ (Sent /\ call.request.model_type = "TRANSFORMER")
          => /\ call.request.prediction_length \in 1..3
             /\ getPredictionLengthForTimeframe(call.timeframe) <= 3
                   => call.request.prediction_length =
                         getPredictionLengthForTimeframe(call.timeframe)
             /\ getPredictionLengthForTimeframe(call.timeframe) > 3
                   => call.request.prediction_length = 3

C9_Witness ==
    /\ Sent
    /\ call.request.model_type = "TRANSFORMER"
    /\ call.timeframe = "2W"
    /\ call.request.prediction_length = 3

\* C10: the current price of the stored result, and the one its trend and its
\* change percentage are computed from, is the latest close fetched from the
\* data source when that close is positive, and the provider's current_price
\* only when the latest close is missing or not positive.
C10_LatestCloseIsCurrentPrice ==
    predictionData.present =>
        LET d        == predictionData.derived
            expected == IF d.latest_close > 0 THEN d.latest_close ELSE d.current_price
            first    == IF d.predictions # <<>> THEN d.predictions[1] ELSE expected
        IN  /\ d.currentPrice = 100 * expected
            /\ d.trend = (IF first > expected THEN "Bullish" ELSE "Bearish")
            /\ d.changePercent =
                  (IF expected > 0
                   THEN ToFixed2(Frac((first - expected) * 100, expected))
                   ELSE 0)

C10_Witness ==
    /\ predictionData.present
    /\ predictionData.derived.latest_close = 150
    /\ predictionData.derived.current_price = 148
    /\ predictionData.derived.predictions # <<>>
    /\ predictionData.derived.predictions[1] = 149
    /\ predictionData.derived.currentPrice = 15000
    /\ predictionData.derived.trend = "Bearish"
    /\ predictionData.derived.changePercent = -67

\* C11: the trend is Bullish exactly when the first prediction is greater than
\* the current price of the forecast; a first prediction equal to it, and an
\* empty prediction sequence, give Bearish.  For the record runPrediction stores
\* and for the one generatePrediction stores (rendered BULLISH or BEARISH).
C11_BullishIffFirstPredictionAbove ==
    /\ predictionData.present =>
          LET d == predictionData.derived
          IN  /\ d.trend \in {"Bullish", "Bearish"}
              /\ d.trend = "Bullish" <=>
                    (d.predictions # <<>> /\ 100 * d.predictions[1] > d.currentPrice)
    /\ prediction.present =>
          (PanelLabel(prediction.direction) = "BULLISH" <=>
              (prediction.predictions # <<>>
                  /\ prediction.predictions[1] > prediction.currentPrice))

C11_Witness ==
    /\ predictionData.present
    /\ predictionData.derived.predictions # <<>>
    /\ 100 * predictionData.derived.predictions[1] = predictionData.derived.currentPrice
    /\ predictionData.derived.currentPrice > 0
    /\ predictionData.derived.trend = "Bearish"

\* C12: for a prediction sequence of at least one element and a positive
\* current price, the confidence runPrediction stores is
\* clamp(100 - sqrt(population variance of the predictions) / current price * 100,
\* 50, 95) to the tenth it is printed with, and so lies between 50 and 95.
\* With y = 1000 * sqrt(variance) / price, the stored tenths T are within one half
\* of min(950, max(500, 1000 - y)); y is compared through 4 * y * y.
C12_ConfidenceIsClampedFormula ==
    (predictionData.present
        /\ predictionData.derived.predictions # <<>>
        /\ predictionData.derived.currentPrice > 0) =>
       LET d     == predictionData.derived
           n     == Len(d.predictions)
           price == d.currentPrice \div 100
           mean2 == Sum(d.predictions) * Sum(d.predictions)
           yy4   == Scaled(4 * (n * Sum(Squares(d.predictions)) - mean2),
                           n * n * price * price, 6)
           T     == d.confidence.tenths
           below == 1999 - 2 * T
           above == 2001 - 2 * T
       IN  /\ ~d.confidence.nan
           /\ T \in 500..950
           /\ T = 950 \/ yy4.q >= below * below
           /\ T = 500 \/ yy4.q < above * above \/ (yy4.q = above * above /\ yy4.exact)

C12_Witness ==
    /\ predictionData.present
    /\ predictionData.derived.predictions = <<149, 189, 229>>
    /\ predictionData.derived.currentPrice = 15000
    /\ predictionData.derived.confidence = Tenths(782)

\* C13 (as claimed): every stored forecast, of runPrediction and of
\* generatePrediction, has a confidence that is a number between 50 and 95, and
\* exactly 50 when its prediction sequence is empty or its current price is not
\* positive.
C13_ConfidenceDefaultsToFifty ==
    /\ predictionData.present =>
          LET d == predictionData.derived
          IN  /\ ~d.confidence.nan
              /\ d.confidence.tenths \in 500..950
              /\ (d.predictions = <<>> \/ d.currentPrice <= 0)
                    => d.confidence.tenths = 500
    /\ prediction.present =>
          /\ ~prediction.confidence.nan
          /\ prediction.confidence.tenths \in 500..950
          /\ (prediction.predictions = <<>> \/ prediction.currentPrice <= 0)
                => prediction.confidence.tenths = 500

\* the percentage change of an alert is at least t percent in size
AtLeast(pct, t) == Abs(pct.num) >= t * pct.den

\* C14: a price alert and a prediction alert have severity high exactly when
\* |pct| >= 2, medium exactly when 1 <= |pct| < 2 and low exactly when |pct| < 1,
\* pct being the percentage change of the alert; the thresholds are the same for
\* the two types.
C14_SeverityThresholds ==
    \A r \in Runs : \A i \in 1..Len(runs[r].built) :
        LET a == runs[r].built[i]
        IN  (a.type \in {"price", "prediction"} /\ ~a.val.nan) =>
              /\ a.severity \in {"high", "medium", "low"}
              /\ a.severity = "high" <=> AtLeast(a.val, 2)
              /\ a.severity = "medium" <=> (AtLeast(a.val, 1) /\ ~AtLeast(a.val, 2))
              /\ a.severity = "low" <=> ~AtLeast(a.val, 1)

C14_Witness ==
    /\ installs # <<>>
    /\ \E i, j \in 1..Len(alerts) :
          /\ alerts[i].type = "price" /\ alerts[i].val = Frac(100, 100)
          /\ alerts[i].severity = "medium"
          /\ alerts[j].type = "prediction" /\ alerts[j].val = Frac(-200, 100)
          /\ alerts[j].severity = "high"

\* two percentages are the same number
SamePct(p, q) == ~p.nan /\ ~q.nan /\ p.num * q.den = q.num * p.den

\* (latest_close - prev_close) / prev_close * 100 of a price history, 0 when the
\* previous close is missing or not positive
ExpectedPricePct(rows) ==
    IF Len(rows) >= 2 /\ rows[Len(rows) - 1] > 0
    THEN Frac(100 * (rows[Len(rows)] - rows[Len(rows) - 1]), rows[Len(rows) - 1])
    ELSE Frac(0, 1)

\* C15: with price alerts enabled, a completed run holds exactly one price alert
\* for each symbol of the batch whose price-history fetch returned, and none for
\* a symbol whose fetch failed; the pct of the alert is
\* (latest_close - prev_close) / prev_close * 100, and 0 when prev_close <= 0.
C15_OnePriceAlertPerFetchedSymbol ==
    \A r \in Runs :
        (Done(r) /\ runs[r].ns.priceAlerts) =>
            \A k \in 1..Len(runs[r].symbols) :
                LET sym  == runs[r].symbols[k]
                    resp == runs[r].answers[<<"price", k>>]
                    mine == AlertsOf(runs[r].built, "price", sym)
                IN  /\ <<"price", k>> \in DOMAIN runs[r].answers
                    /\ ~resp.ok => mine = {}
                    /\ resp.ok =>
                          /\ Cardinality(mine) = 1
                          /\ \A i \in mine :
                                SamePct(runs[r].built[i].val, ExpectedPricePct(resp.rows))

C15_Witness ==
    \E r \in Runs :
        /\ Done(r) /\ runs[r].ns.priceAlerts /\ runs[r].symbols = <<"TSLA", "NVDA">>
        /\ runs[r].answers[<<"price", 1>>] = PriceFailed
        /\ runs[r].answers[<<"price", 2>>] = PriceRows(<<200, 203>>)
        /\ AlertsOf(alerts, "price", "TSLA") = {}
        /\ \E i \in AlertsOf(alerts, "price", "NVDA") : alerts[i].val = Frac(300, 200)

\* the symbols run r queried for alerts of type t
Queried(r, t) == {f[2] : f \in {g \in runs[r].fetched : g[1] = t}}

Cap(t) == CASE t = "price" -> 8 [] t = "sentiment" -> 6 [] t = "prediction" -> 3

\* the first n symbols of the batch of run r
Prefix(r, n) == {runs[r].symbols[k] : k \in 1..(IF Len(runs[r].symbols) < n
                                                THEN Len(runs[r].symbols) ELSE n)}

\* the stored watchlist is missing, is not parseable, or yields no symbol
YieldsNoSymbol(raw) ==
    raw.kind # "array" \/ \A i \in 1..Len(raw.entries) : raw.entries[i] = ""

\* C16: a run queries at most 8 symbols for price alerts, at most 6 for sentiment
\* alerts and at most 3 for prediction alerts, each set being a prefix of the
\* batch; the batch is the fallback list AAPL, GOOGL, MSFT when the stored
\* watchlist is missing, unparseable or yields no symbol.
C16_BatchSizesAndFallback ==
    \A r \in Runs :
        runs[r].pc # "idle" =>
            /\ Len(runs[r].symbols) \in 1..8
            /\ \A t \in Types :
                  /\ Cardinality(Queried(r, t)) <= Cap(t)
                  /\ Queried(r, t) # {} => Queried(r, t) = Prefix(r, Cap(t))
            /\ Done(r) => \A t \in Types : Queried(r, t) = Prefix(r, Cap(t))
            /\ YieldsNoSymbol(watchlist) => runs[r].symbols = <<"AAPL", "GOOGL", "MSFT">>

C16_Witness ==
    /\ watchlist = StoredWatchlist(NineSymbols)
    /\ Done(1)
    /\ Len(runs[1].symbols) = 8
    /\ Cardinality(Queried(1, "price")) = 8
    /\ Cardinality(Queried(1, "sentiment")) = 6
    /\ Cardinality(Queried(1, "prediction")) = 3

DistinctIds(list) ==
    \A i, j \in 1..Len(list) : i # j => list[i].id # list[j].id

IdsOf(list) == {list[i].id : i \in 1..Len(list)}

\* C17: the ids of the alert list shown are pairwise distinct, and a run gives
\* its alerts strictly increasing ids in the order it creates them, whatever the
\* order in which its fetches complete and whether or not runs overlap.
C17_IdsDistinctAndIncreasing ==
    /\ DistinctIds(alerts)
    /\ \A r \in Runs :
          /\ DistinctIds(runs[r].built)
          /\ IdsOf(runs[r].built) = {runs[r].pushed[i] : i \in 1..Len(runs[r].pushed)}
          /\ Len(runs[r].built) = Len(runs[r].pushed)
          /\ \A i, j \in 1..Len(runs[r].pushed) :
                i < j => runs[r].pushed[i] < runs[r].pushed[j]
          /\ InFlight(r) =>
                \A i \in 1..Len(runs[r].built) : runs[r].built[i].id = runs[r].pushed[i]

C17_Witness ==
    /\ runs[2].overlapped /\ Done(1) /\ Done(2)
    /\ IdsOf(runs[1].built) \cap IdsOf(runs[2].built) # {}
    /\ Len(alerts) >= 2
    /\ \E i, j \in 1..Len(alerts) :
          /\ alerts[i].stock = "NVDA" /\ alerts[j].stock = "TSLA"
          /\ alerts[i].type = alerts[j].type
          /\ alerts[i].id < alerts[j].id

\* the indicator called last, on a series shorter than n
CalledShort(name, n) == indicator.name = name /\ Len(values) < n

\* C18: for a positive period p and a series of fewer than p values computeSMA
\* and computeEMA return null, never 0; the MACD is null whenever the 12-period
\* or the 26-period EMA is, that is for every series of fewer than 26 values.
\* A series of enough values gives a number.
C18_ShortSeriesGiveNull ==
    /\ CalledShort("sma", period) => indicator.value = Null
    /\ CalledShort("ema", period) => indicator.value = Null
    /\ CalledShort("macd", 26) => indicator.value = Null
    /\ (indicator.name \in {"sma", "ema"} /\ Len(values) >= period)
          => (~indicator.value.null /\ indicator.value.num > 0)
    /\ (indicator.name = "macd" /\ Len(values) >= 26) => ~indicator.value.null

C18_Witness ==
    /\ indicator.name = "macd"
    /\ Len(values) = 25
    /\ ~computeEMA(values, 12).null
    /\ indicator.value = Null

\* the sum of the falls over the last p differences of s
RECURSIVE Falls(_, _, _)
Falls(s, p, i) ==
    IF i > Len(s) THEN 0
    ELSE (IF i > Len(s) - p /\ s[i] < s[i - 1] THEN s[i - 1] - s[i] ELSE 0)
         + Falls(s, p, i + 1)

\* C19: for a series of at least period + 1 positive values computeRSI returns a
\* value between 0 and 100, and 100 exactly when the losses over the last
\* `period` differences sum to 0; for a shorter series it returns null.
C19_RsiRange ==
    indicator.name = "rsi" =>
        IF Len(values) < period + 1 THEN indicator.value = Null
        ELSE /\ ~indicator.value.null
             /\ indicator.value.num >= 0
             /\ indicator.value.num <= 100 * indicator.value.den
             /\ (indicator.value.num = 100 * indicator.value.den)
                   <=> (Falls(values, period, 2) = 0)

C19_Witness ==
    /\ indicator.name = "rsi"
    /\ period = 2
    /\ values = <<2, 1, 4>>
    /\ indicator.value = Ratio(75, 1)

\* C20: a prediction run for a symbol with no or an empty historical series
\* ends in an error state of its own and a run whose inference provider fails
\* ends in another; neither failure is reported as the other or as a success.
\* A stored result is the success; the error of a failed run names the call
\* that failed.
C20_FailuresAreDistinctErrors ==
    /\ predictionData.present => predictionData.closes # <<>>
    /\ pError = "predict" => ~predictionData.present
    /\ pError = "history" => ~predictionData.present

\* the steps the horizon table gives for a timeframe
TableValue(tf) ==
    IF tf = "1D" THEN 1 ELSE IF tf = "3D" THEN 3 ELSE IF tf = "1W" THEN 7
    ELSE IF tf = "2W" THEN 14 ELSE 30

\* C21: for the model families LSTM, GRU, CNN and RNN the prediction_length
\* sent to the inference provider is the table value of the timeframe,
\* unchanged: 1D gives 1, 3D gives 3, 1W gives 7, 2W gives 14, 1M gives 30.
C21_OtherFamiliesSendTableValue ==
    (Sent /\ call.request.model_type \in {"LSTM", "GRU", "CNN", "RNN"})
        => /\ call.timeframe \in Timeframes
           /\ call.request.prediction_length = TableValue(call.timeframe)

C21_Witness ==
    /\ Sent
    /\ call.request.model_type = "GRU"
    /\ call.timeframe = "1M"
    /\ call.request.prediction_length = 30

\* the phases run r has reached the gate of
Reached(r) ==
    {Phases[i] : i \in 1..(IF runs[r].pc = "done" THEN Len(Phases)
                            ELSE PhaseIndex(runs[r].pc))}

\* the fetches the preferences ns and the symbols decide for the phases reached
DecidedFetches(r, ns, symbols) ==
    UNION {IF PhaseGate(ns, phase)
           THEN {<<phase, PhaseSymbols(symbols, phase)[k]>> :
                    k \in 1..Len(PhaseSymbols(symbols, phase))}
           ELSE {} : phase \in Reached(r)}

\* the fetches and the alerts of every run started are those of its own ns and
\* symbols
SnapshotDecides ==
    \A r \in Runs : runs[r].pc # "idle" =>
        /\ runs[r].fetched = DecidedFetches(r, runs[r].ns, runs[r].symbols)
        /\ \A i \in 1..Len(runs[r].built) :
              /\ PhaseGate(runs[r].ns, runs[r].built[i].type)
              /\ \E k \in 1..Len(runs[r].symbols) :
                    runs[r].symbols[k] = runs[r].built[i].stock

\* a run takes its ns and symbols from the store when it starts and keeps them
SnapshotKept ==
    \A r \in Runs :
        /\ (runs[r].pc = "idle" /\ runs'[r].pc # "idle")
              => /\ runs'[r].ns = ReadNs(notificationSettings')
                 /\ runs'[r].symbols = BatchSymbols(watchlist')
        /\ runs[r].pc # "idle"
              => /\ runs'[r].ns = runs[r].ns
                 /\ runs'[r].symbols = runs[r].symbols

\* C22: a synthesis run reads the notification preferences and the watchlist
\* once, at its start; a change of the stored preferences or of the stored
\* watchlist made while the run is in flight changes neither the fetches the
\* run issues nor the alerts it produces.
C22_RunUsesItsSnapshot == []SnapshotDecides /\ [][SnapshotKept]_vars

\* run 1 ended with its two price alerts although the preferences and the
\* watchlist were changed, and run 2 started, while it was in flight
C22_Witness ==
    /\ runs[1].pc = "done"
    /\ Len(runs[1].built) = 2
    /\ runs[2].pc # "idle"
    /\ runs[2].overlapped
    /\ runs[2].ns # runs[1].ns
    /\ runs[2].symbols # runs[1].symbols

\* C23: computeSMA, computeEMA and computeRSI reject a period that is zero or
\* negative: called with such a period none of them returns a number, finite
\* or not, as if the call were valid.
C23_NonPositivePeriodGivesNoNumber ==
    (indicator.name \in {"sma", "ema", "rsi"} /\ period <= 0) => indicator.value.null

\* a run that has called the inference provider has called it once, and a run
\* that ended on its failure shows the error, no result, and is not loading
CalledOnce ==
    /\ Sent => call.predicts = 1
    /\ (call.pc = "idle" /\ pError = "predict")
          => (predictionData = NoData /\ ~pLoading)

\* a run whose inference call is answered either goes on to the history or ends
\* with the error set
FailureEndsRun ==
    call.pc = "predict" =>
        \/ call' = call
        \/ call'.pc = "hist" /\ call'.result.ok
        \/ /\ call'.pc = "idle"
           /\ pError' = "predict"
           /\ predictionData' = NoData
           /\ ~pLoading'

\* C24: each runPrediction calls the inference provider at most once, with no
\* retry of its own; if that call fails the run ends with the error set, no
\* prediction result stored (the result cleared at the start of the run stays
\* empty) and loading false.
C24_ProviderCalledOnce == []CalledOnce /\ [][FailureEndsRun]_vars

C24_Witness ==
    /\ call.pc = "idle"
    /\ pError = "predict"
    /\ predictionData = NoData
    /\ ~pLoading

\* a fetch of run r was rejected
FetchFailed(r) == \E a \in DOMAIN runs[r].answers : ~runs[r].answers[a].ok

\* C25: the error state of the alert page is set only by a failure of a
\* synthesis run as a whole, never by the failure of the fetch of one symbol or
\* of one signal type; and whenever no run is in flight a set error state
\* implies an empty alert list, also when two runs overlapped.
C25_SingleFailureSetsNoError ==
    /\ (\E r \in Runs : FetchFailed(r)) => error = "null"
    /\ ((\A r \in Runs : ~InFlight(r)) /\ error # "null") => alerts = <<>>

\* two overlapping runs ended, a fetch of one of them was rejected, and the
\* alerts of the other fetches are shown
C25_Witness ==
    /\ \A r \in Runs : runs[r].pc = "done"
    /\ runs[2].overlapped
    /\ FetchFailed(2)
    /\ alerts # <<>>
    /\ error = "null"
    /\ ~loading

\* the list s without its element number i
Dropped(s, i) == SubSeq(s, 1, i - 1) \o SubSeq(s, i + 1, Len(s))

\* the effect of each read/delete action on the list
ReadDeleteEffects ==
    /\ \A i \in 1..Len(alerts) :
          markAsRead(i) =>
              /\ ~alerts[i].read
              /\ Len(alerts') = Len(alerts)
              /\ alerts'[i] = [alerts[i] EXCEPT !.read = TRUE]
              /\ \A j \in 1..Len(alerts) : j # i => alerts'[j] = alerts[j]
    /\ \A i \in 1..Len(alerts) : deleteAlert(i) => alerts' = Dropped(alerts, i)
    /\ clearAllAlerts => alerts' = <<>>
    /\ UserNext =>
          \A j \in 1..Len(alerts') : \E k \in 1..Len(alerts) :
              /\ [alerts'[j] EXCEPT !.read = FALSE] = [alerts[k] EXCEPT !.read = FALSE]
              /\ alerts[k].read => alerts'[j].read

\* any other change of the list is the list of a run that has just ended
OnlyRunsReplace ==
    (alerts' # alerts /\ ~UserNext) =>
        \E r \in Runs :
            /\ runs[r].pc # "done"
            /\ runs'[r].pc = "done"
            /\ alerts' = runs'[r].built
            /\ \A j \in 1..Len(alerts') : ~alerts'[j].read

\* C26: markAsRead(id) changes only the read flag of the alert with that id,
\* from false to true; deleteAlert(id) removes only the alert with that id; no
\* read/delete action turns a read alert back to unread or adds an alert;
\* clearAllAlerts leaves the list empty.  Only a completed synthesis run
\* replaces the list, and every alert it installs is unread.
C26_ReadDeleteFrame == [][ReadDeleteEffects /\ OnlyRunsReplace]_vars

\* of the three alerts installed one was deleted and one of the others read
C26_Witness ==
    /\ touched
    /\ Len(runs[1].built) = 3
    /\ Len(alerts) = 2
    /\ \E i, j \in 1..2 : alerts[i].read /\ ~alerts[j].read

\* the first predicted value of the answer is above its current price
FirstAboveCurrent(resp) ==
    /\ resp.isArray
    /\ Len(resp.predictions) > 0
    /\ resp.current > 0
    /\ resp.predictions[1] > resp.current

\* C27: a prediction alert is labelled Bullish if and only if the first
\* predicted value is strictly greater than the provider's current price; when
\* the first prediction equals the current price, when the current price is
\* <= 0, or when no prediction is returned, the alert is labelled Bearish.
C27_BullishIffFirstAboveCurrent ==
    \A r \in Runs : \A i \in 1..Len(runs[r].built) :
        LET a == runs[r].built[i]
        IN  a.type = "prediction" =>
                (a.dir = "Bullish" <=> FirstAboveCurrent(AnswerFor(r, a)))

\* C28: on the alert page loading is true in every state in which at least one
\* synthesis run is in flight, also when a second run started by a
\* settings:changed event overlaps the first; and once the runs have finished
\* and none is in flight, loading is false.
C28_LoadingWhileInFlight ==
    /\ (\E r \in Runs : InFlight(r)) => loading
    /\ (mounted /\ \A r \in Runs : ~InFlight(r)) => ~loading

\* C29: in the dashboard prediction panel, whatever the interleaving of changes
\* of the selected stock and of prediction responses, once no prediction
\* request is in flight the prediction shown, if any, is the one computed for
\* the stock selected now: a late response for a stock selected earlier does
\* not overwrite it.
C29_ShownPredictionIsOfSelectedStock ==
    (panelMounted /\ \A c \in PanelCalls : panelCalls[c].pc # "predict")
        => (prediction.present => prediction.stock = panelStock)

\* C30: when two-factor authentication is enabled (a PIN is stored) a user is
\* never authenticated without a successful PIN verification: in every state
\* after the password step and before verifyPin succeeds, also after a reload
\* of the application, authService.isAuthenticated() is false and no protected
\* route is served; wrong PIN entries leave the user unauthenticated.
C30_NoAuthenticationWithoutPin ==
    (is2FAEnabled /\ pinDue) =>
        /\ ~IsAuthenticated(currentUser)
        /\ ~isAuthenticated
        /\ route # "protected"

====
